---- MODULE Spec2Model ----
(***************************************************************************)
(* A model of conda-declarative: the state reconciler (state.py), which    *)
(* keeps the declarative env file of a prefix in sync with the user's      *)
(* requests, and the manifest model (spec.py), which normalizes, converts  *)
(* and serializes dependency sets.                                         *)
(*                                                                         *)
(* Strings that the program builds or parses are sequences of tokens, so   *)
(* that str() and MatchSpec() are conversions and not the identity.        *)
(***************************************************************************)
EXTENDS Integers, Sequences, FiniteSets, TLC

VARIABLES
    \* the state reconciler (state.py)
    manifest,       \* the declarative env file of the prefix, as the dict dump() writes
    history,        \* History(prefix).get_requested_specs_map(): name-keyed, in order
    before,         \* the env file as it was when the last update_state call began
    baseline,       \* `packages` of the last update_state call after lines 62-72
    remove_specs,   \* argument of the last update_state call
    update_specs,   \* argument of the last update_state call
    pc,             \* "start", "called" (update_state ran), "repeated" (ran twice)
    \* the dependency normalizer (spec.py)
    raw,            \* the mapping given to validate_match_spec, in insertion order
    deps,           \* what validate_match_spec(raw) returned or raised
    reordered,      \* the same entries in another order, and what they normalize to
    dumped,         \* serialize_match_spec of the normalized list
    reparsed,       \* validate_match_spec of the serialized mapping
    dpc,            \* "raw", "validated", "reordered", "serialized", "reparsed"
    \* the PyPI dependencies of a manifest (spec.py)
    pypi,           \* TomlSingleEnvironment.pypi_dependencies: a list of PyPIDependency
    pip,            \* the dependency last converted and what its to_pip() gave
    external,       \* what get_external_packages() returned or raised
    warnings,       \* the warnings emitted while converting
    ppc,            \* "loaded", "converted", "exported"
    \* merging configurations (TomlSpec._combine, TomlSpec._model_to_environment)
    objects,        \* the EnvironmentConfig objects alive, by identity
    entry,          \* the same objects as they were when _combine was called
    configs,        \* the arguments of _combine: identities, base first
    env_config,     \* the identity _combine returned
    model,          \* the config table of the manifest _model_to_environment is given
    converted,      \* the Environment _model_to_environment built
    cpc,            \* "start", "combined", "loaded", "converted"
    \* validating manifest documents (TomlEnvironment and its variants, TomlSpec._load)
    document,       \* the dict handed to the validator
    outcome,        \* the call made on it and what it returned or raised
    warned,         \* the warnings the call emitted
    vpc,            \* "parsed", "validated"
    \* loading a TomlSpec (TomlSpec._load)
    spec_obj,       \* what TomlSpec was constructed with
    spec_file,      \* the file at the path, when spec_obj is a path
    spec_loaded,    \* the model and the Environment _load made, or what it raised
    lpc,            \* "made", "loaded"
    \* validating PyPI dependencies (PyPIDependencies.model_validate)
    pypi_value,     \* the list or mapping handed to the validator
    pypi_root,      \* what the validator returned or raised
    rpc,            \* "given", "validated"
    \* applying the env file (apply.py, cli.execute_apply)
    env_file,       \* the env file of the prefix: NoFile or the dict it holds
    apply_args,     \* quiet, dry_run and lock_only of the call
    traversal,      \* what the solver and the graph of its records give, or the error raised
    solve_call,     \* the channels and specs solve was called with, when it was
    solution,       \* the records solve returned, when it did
    lockdirs,       \* the lock directories written under the prefix
    linked,         \* the records the link transaction ran on, when it ran
    printed,        \* the records printed
    apply_result,   \* the call made, and what it returned or raised
    apc,            \* "ready", "done"
    \* the post-transaction action (plugin.UpdateState)
    prefix_file,    \* the file at the manifest path of the prefix: NoFile or its bytes
    prefix_history, \* the requested specs of the history of the prefix
    action_specs,   \* remove_specs and update_specs of the action
    original_env,   \* self.original_env: None or the text read
    file_at_start,  \* the file as it was before execute
    linesep,        \* os.linesep of the platform
    action_result,  \* the method last called, and what it returned or raised
    upc,            \* "made", "executed", "reversed"
    \* comparing editable packages (spec.EditablePackage)
    lhs,            \* the left operand, an EditablePackage
    rhs,            \* the right operand: an EditablePackage or a str
    comparisons,    \* what ==, >, < and sorted gave
    qpc,            \* "start", "compared"
    \* the editor (edit.EditApp)
    editor_text,    \* self.editor.text
    initial_text,   \* self.initial_text: the text of the file when the editor started
    file_text,      \* the text of the file now
    editor_label,   \* what the label over the editor says
    status,         \* what set_status was last given
    notified,       \* the last notification
    workers,        \* the workers under way, oldest first
    orphans,        \* what the threads of cancelled workers are still working on
    dropped,        \* the texts whose solve came to its end for a cancelled worker
    initial_solution,\* self.initial_solution
    current_solution,\* self.current_solution
    table_rows,     \* the rows of self.table
    changes,        \* how many TextArea.Changed events were handled
    last_write,     \* the worker that last wrote current_solution, and the changes handled by then
    epc             \* "constructed", "mounted"

stateVars == <<manifest, history, before, baseline, remove_specs, update_specs, pc>>

depsVars == <<raw, deps, reordered, dumped, reparsed, dpc>>

pypiVars == <<pypi, pip, external, warnings, ppc>>

combineVars == <<objects, entry, configs, env_config, model, converted, cpc>>

docVars == <<document, outcome, warned, vpc>>

loadVars == <<spec_obj, spec_file, spec_loaded, lpc>>

rootVars == <<pypi_value, pypi_root, rpc>>

applyVars == <<env_file, apply_args, traversal, solve_call, solution, lockdirs, linked, printed, apply_result, apc>>

pluginVars == <<prefix_file, prefix_history, action_specs, original_env, file_at_start, linesep, action_result, upc>>

compareVars == <<lhs, rhs, comparisons, qpc>>

editorVars == <<editor_text, initial_text, file_text, editor_label, status, notified, workers, orphans, dropped, initial_solution, current_solution, table_rows, changes, last_write, epc>>

laterVars == <<loadVars, rootVars, applyVars, pluginVars, compareVars, editorVars>>

vars == <<stateVars, depsVars, pypiVars, combineVars, docVars, laterVars>>

-----------------------------------------------------------------------------
(* Bounds *)

\* longest update_specs / remove_specs list passed to update_state
MaxSpecs == 2

-----------------------------------------------------------------------------
(* Values *)

\* None where the other values are strings
None == "None"

\* an optional composite value: <<>> is None, <<x>> is x
Absent == <<>>

Some(x) == <<x>>

\* package names, in ascending string order
PackageNames == <<"flask", "python">>

NameSet == {PackageNames[i] : i \in 1..Len(PackageNames)}

\* the version parts a spec string can carry
Versions == {"3.10"}

Range(s) == {s[i] : i \in 1..Len(s)}

SeqsUpTo(S, n) == UNION {[1..k -> S] : k \in 0..n}

-----------------------------------------------------------------------------
(* conda.models.match_spec.MatchSpec, as update_state uses it: built from a  *)
(* spec string, read through .name, and written back with str().             *)

\* A MatchSpec holds the components it was given and no others: .version is
\* None exactly when the record has no version field.
\* MatchSpec(s): "python" has a name only, "python=3.10" a name and a version
MatchSpec(s) ==
    IF Len(s) >= 3
    THEN [class |-> "MatchSpec", name |-> s[1], version |-> s[3]]
    ELSE [class |-> "MatchSpec", name |-> s[1]]

\* str(MatchSpec)
MatchSpecStr(m) ==
    IF "version" \in DOMAIN m THEN <<m.name, "=", m.version>> ELSE <<m.name>>

SpecStrings == {<<n>> : n \in NameSet} \cup {<<n, "=", v>> : n \in NameSet, v \in Versions}

\* list(map(MatchSpec, strings))
MatchSpecs(strings) == [i \in 1..Len(strings) |-> MatchSpec(strings[i])]

\* list(map(str, specs))
MatchSpecStrs(specs) == [i \in 1..Len(specs) |-> MatchSpecStr(specs[i])]

-----------------------------------------------------------------------------
(* A Python dict keyed by package name is a sequence of MatchSpec with       *)
(* pairwise distinct names, in insertion order.                              *)

DictNames(d) == {d[i].name : i \in 1..Len(d)}

\* d[m.name] = m: an existing key keeps its position, a new key goes last
DictSet(d, m) ==
    IF m.name \in DictNames(d)
    THEN [i \in 1..Len(d) |-> IF d[i].name = m.name THEN m ELSE d[i]]
    ELSE Append(d, m)

RECURSIVE DictUpdate(_, _)
\* d.update(items), items in iteration order
DictUpdate(d, items) ==
    IF items = <<>> THEN d
    ELSE DictUpdate(DictSet(d, Head(items)), Tail(items))

\* {pkg.name: pkg for pkg in items}
DictOf(items) == DictUpdate(<<>>, items)

\* del d[name]
DictDel(d, name) == SelectSeq(d, LAMBDA m : m.name # name)

DictGet(d, name) == CHOOSE m \in Range(d) : m.name = name

-----------------------------------------------------------------------------
(* The ambient conda context and the environment configuration.  Of the     *)
(* thirteen EnvironmentConfig fields update_state copies from the context,  *)
(* the model keeps one plain field (channels), one enum field               *)
(* (channel_priority) and the one field whose None is coerced               *)
(* (use_only_tar_bz2).                                                      *)

Prefix == "/envs/test"

\* the enum member ChannelPriority(value)
ChannelPriority(value) == [enum |-> "ChannelPriority", value |-> value]

\* context.channels, context.channel_priority, context.use_only_tar_bz2
ContextConfig ==
    [channels |-> <<"defaults">>,
     channel_priority |-> ChannelPriority("flexible"),
     use_only_tar_bz2 |-> None]

\* context.subdir
ContextSubdir == "linux-64"

\* env_name(prefix)
EnvName(prefix) == "test"

\* the config table of an env file -> EnvironmentConfig (dict_to_env, lines 188-223)
ConfigFromDict(config) ==
    [channels |-> config.channels,
     channel_priority |-> ChannelPriority(config.channel_priority),
     use_only_tar_bz2 |->
        IF config.use_only_tar_bz2 = None THEN "false" ELSE config.use_only_tar_bz2]

\* EnvironmentConfig -> the config table of an env file (env_to_dict, lines 255-283)
ConfigToDict(config) ==
    [channels |-> config.channels,
     channel_priority |-> config.channel_priority.value,
     use_only_tar_bz2 |->
        IF config.use_only_tar_bz2 = None THEN "false" ELSE config.use_only_tar_bz2]

\* dict_to_env: the parsed env file -> Environment; a file without a config
\* table gives config None
dict_to_env(env_dict) ==
    [prefix |-> env_dict.prefix,
     platform |-> env_dict.platform,
     name |-> env_dict.name,
     requested_packages |-> MatchSpecs(env_dict.requested_packages),
     external_packages |-> env_dict.external_packages,
     variables |-> env_dict.variables,
     config |-> IF "config" \in DOMAIN env_dict
                THEN <<ConfigFromDict(env_dict.config)>> ELSE <<>>]

\* env_to_dict: Environment -> the dict that dump() writes
env_to_dict(environment) ==
    [prefix |-> environment.prefix,
     platform |-> environment.platform,
     name |-> environment.name,
     requested_packages |-> MatchSpecStrs(environment.requested_packages),
     external_packages |-> environment.external_packages,
     variables |-> environment.variables,
     config |-> ConfigToDict(environment.config[1])]

\* Environment(prefix=, platform=, config=, name=, requested_packages=): the
\* fields not given take the dataclass defaults
Environment(prefix, platform, config, name, requested_packages) ==
    [prefix |-> prefix,
     platform |-> platform,
     name |-> name,
     requested_packages |-> requested_packages,
     external_packages |-> <<>>,
     variables |-> <<>>,
     config |-> <<config>>]

\* the file system at get_env_path(prefix): <<>> when no file exists, <<dict>> otherwise
NoFile == <<>>

\* from_env_file: None (<<>>) when the file does not exist
from_env_file(file) ==
    IF file = NoFile THEN <<>> ELSE <<dict_to_env(file[1])>>

\* to_env_file
to_env_file(environment) == <<env_to_dict(environment)>>

-----------------------------------------------------------------------------
(* update_state *)

\* lines 52-60: None becomes [], anything else list(map(MatchSpec, specs))
NormalizeSpecs(specs) ==
    IF specs = Absent THEN <<>> ELSE MatchSpecs(specs[1])

\* the history read whenever the env file lists no packages
BaselineUnlessEmpty(current_env, hist) ==
    IF current_env # <<>> /\ current_env[1].requested_packages # <<>>
    THEN DictOf(current_env[1].requested_packages)
    ELSE DictOf(hist)

\* lines 62-72: `packages` before the deltas are applied
Baseline(current_env, hist) ==
    IF current_env # <<>>
    THEN DictOf(current_env[1].requested_packages)
    ELSE DictOf(hist)

RECURSIVE RemoveAll(_, _)
\* lines 75-77
RemoveAll(packages, remove) ==
    IF remove = <<>> THEN packages
    ELSE RemoveAll(IF Head(remove).name \in DictNames(packages)
                   THEN DictDel(packages, Head(remove).name)
                   ELSE packages,
                   Tail(remove))

\* a remove loop that never deletes
ApplyDeltasKeepAll(packages, update, remove) ==
    DictUpdate(packages, DictOf(update))

\* the removals applied before the updates
ApplyDeltasRemoveFirst(packages, update, remove) ==
    DictUpdate(RemoveAll(packages, remove), DictOf(update))

\* the update specs appended to a list, not assigned by key
ApplyDeltasAppend(packages, update, remove) ==
    RemoveAll(packages \o update, remove)

\* lines 74-77: the updates, then the removals
ApplyDeltas(packages, update, remove) ==
    RemoveAll(DictUpdate(packages, DictOf(update)), remove)

\* lines 66 and 79-94: the config of the env file, or one built from the context
ConfigFor(current_env) ==
    IF current_env # <<>> /\ current_env[1].config # <<>>
    THEN current_env[1].config[1]
    ELSE ContextConfig

\* the env file that update_state(prefix, remove, update) leaves
UpdatedFile(file, hist, remove, update) ==
    LET current_env == from_env_file(file)
        packages == ApplyDeltas(Baseline(current_env, hist),
                                NormalizeSpecs(update), NormalizeSpecs(remove))
    IN  to_env_file(Environment(Prefix, ContextSubdir, ConfigFor(current_env),
                                EnvName(Prefix), packages))

\* what a caller passes as update_specs: None or a list of spec strings
UpdateArgs == {Absent} \cup {Some(s) : s \in SeqsUpTo(SpecStrings, MaxSpecs)}

\* what a caller passes as remove_specs: None or a list of package names
RemoveArgs == {Absent} \cup {Some(s) : s \in SeqsUpTo({<<n>> : n \in NameSet}, MaxSpecs)}

\* the first update_state call on a prefix, with any arguments
UpdateState(remove, update) ==
    /\ pc = "start"
    /\ before' = manifest
    /\ baseline' = Baseline(from_env_file(manifest), history)
    /\ remove_specs' = remove
    /\ update_specs' = update
    /\ manifest' = UpdatedFile(manifest, history, remove, update)
    /\ pc' = "called"
    /\ UNCHANGED <<history, depsVars, pypiVars, combineVars, docVars, laterVars>>

\* the same call made again right after the first
UpdateStateAgain ==
    /\ pc = "called"
    /\ before' = manifest
    /\ baseline' = Baseline(from_env_file(manifest), history)
    /\ manifest' = UpdatedFile(manifest, history, remove_specs, update_specs)
    /\ pc' = "repeated"
    /\ UNCHANGED <<history, remove_specs, update_specs, depsVars, pypiVars, combineVars, docVars, laterVars>>

-----------------------------------------------------------------------------
(* The starting states: any env file, or none, and any history. *)

\* requested-specs maps: name-keyed, in any order
SpecMaps == {s \in SeqsUpTo(SpecStrings, Len(PackageNames)) :
                \A i, j \in 1..Len(s) : i # j => s[i][1] # s[j][1]}

FileConfig ==
    [channels |-> <<"conda-forge">>, channel_priority |-> "strict",
     use_only_tar_bz2 |-> "true"]

FileBodies ==
    {[prefix |-> Prefix, platform |-> ContextSubdir, name |-> EnvName(Prefix),
      requested_packages |-> pkgs, external_packages |-> ext, variables |-> <<>>]
        : pkgs \in SpecMaps, ext \in {<<>>, << <<"pip", <<"numpy">>>> >>}}

EnvFiles ==
    {NoFile} \cup {<<f>> : f \in FileBodies}
             \cup {<<f @@ [config |-> FileConfig]>> : f \in FileBodies}

Histories == {MatchSpecs(s) : s \in SpecMaps}

\* the histories tried with an env file in place: the empty one and a full one
HistoriesBesideFile ==
    {h \in Histories :
        \/ Len(h) = 0
        \/ /\ Len(h) = Len(PackageNames)
           /\ h[1].name = PackageNames[Len(PackageNames)]
           /\ "version" \notin DOMAIN h[1]
           /\ \A i \in 2..Len(h) : "version" \in DOMAIN h[i]}

\* the normalizer at rest
DepsIdle ==
    /\ raw = <<>>
    /\ deps = <<>>
    /\ reordered = <<>>
    /\ dumped = <<>>
    /\ reparsed = <<>>
    /\ dpc = "idle"

\* no configuration being merged
CombineIdle ==
    /\ objects = <<>>
    /\ entry = <<>>
    /\ configs = <<>>
    /\ env_config = <<>>
    /\ model = <<>>
    /\ converted = <<>>
    /\ cpc = "idle"

\* no document being validated
DocIdle ==
    /\ document = <<>>
    /\ outcome = <<>>
    /\ warned = <<>>
    /\ vpc = "idle"

\* no TomlSpec being loaded
LoadIdle ==
    /\ spec_obj = <<>>
    /\ spec_file = <<>>
    /\ spec_loaded = <<>>
    /\ lpc = "idle"

\* no PyPI dependencies being validated
RootIdle ==
    /\ pypi_value = <<>>
    /\ pypi_root = <<>>
    /\ rpc = "idle"

\* applying the env file (apply.py, cli.execute_apply): nothing under way
ApplyIdle ==
    /\ env_file = <<>>
    /\ apply_args = <<>>
    /\ traversal = <<>>
    /\ solve_call = <<>>
    /\ solution = <<>>
    /\ lockdirs = <<>>
    /\ linked = <<>>
    /\ printed = <<>>
    /\ apply_result = <<>>
    /\ apc = "idle"

\* the post-transaction action (plugin.UpdateState): nothing under way
PluginIdle ==
    /\ prefix_file = <<>>
    /\ prefix_history = <<>>
    /\ action_specs = <<>>
    /\ original_env = <<>>
    /\ file_at_start = <<>>
    /\ linesep = <<>>
    /\ action_result = <<>>
    /\ upc = "idle"

\* comparing editable packages (spec.EditablePackage): nothing under way
CompareIdle ==
    /\ lhs = <<>>
    /\ rhs = <<>>
    /\ comparisons = <<>>
    /\ qpc = "idle"

\* the editor (edit.EditApp): nothing under way
EditorIdle ==
    /\ editor_text = <<>>
    /\ initial_text = <<>>
    /\ file_text = <<>>
    /\ editor_label = <<>>
    /\ status = <<>>
    /\ notified = <<>>
    /\ workers = <<>>
    /\ orphans = <<>>
    /\ dropped = <<>>
    /\ initial_solution = <<>>
    /\ current_solution = <<>>
    /\ table_rows = <<>>
    /\ changes = <<>>
    /\ last_write = <<>>
    /\ epc = "idle"

LaterIdle ==
    /\ LoadIdle
    /\ RootIdle
    /\ ApplyIdle
    /\ PluginIdle
    /\ CompareIdle
    /\ EditorIdle

\* the PyPI conversion at rest
PyPIIdle ==
    /\ pypi = <<>>
    /\ pip = <<>>
    /\ external = <<>>
    /\ warnings = <<>>
    /\ ppc = "idle"

Init ==
    /\ \/ manifest = NoFile /\ history \in Histories
       \/ manifest \in EnvFiles \ {NoFile} /\ history \in HistoriesBesideFile
    /\ before = NoFile
    /\ baseline = <<>>
    /\ remove_specs = Absent
    /\ update_specs = Absent
    /\ pc = "start"
    /\ DepsIdle
    /\ PyPIIdle
    /\ CombineIdle
    /\ DocIdle
    /\ LaterIdle

Next ==
    \/ \E remove \in RemoveArgs, update \in UpdateArgs : UpdateState(remove, update)
    \/ UpdateStateAgain

Spec == Init /\ [][Next]_vars

-----------------------------------------------------------------------------
(* Claims about update_state *)

Called == pc \in {"called", "repeated"}

\* the arguments of the last call, as update_state normalizes them
U == NormalizeSpecs(update_specs)

R == NormalizeSpecs(remove_specs)

SpecNames(specs) == {specs[i].name : i \in 1..Len(specs)}

\* the last spec of a list that names n
LastOf(specs, n) ==
    specs[CHOOSE i \in 1..Len(specs) :
            /\ specs[i].name = n
            /\ \A j \in (i + 1)..Len(specs) : specs[j].name # n]

\* the requested packages the env file holds, parsed
Persisted == MatchSpecs(manifest[1].requested_packages)

\* C1: after update_state the env file holds exactly the packages named
\* (names(B) + names(U)) - names(R), each once; a name from U carries U's spec,
\* a name only in B carries B's spec; a name of R that the map lacks is skipped.
C1_PersistedPackages ==
    Called =>
        /\ manifest # NoFile
        /\ SpecNames(Persisted) = (DictNames(baseline) \cup SpecNames(U)) \ SpecNames(R)
        /\ Cardinality(SpecNames(Persisted)) = Len(Persisted)
        /\ \A i \in 1..Len(Persisted) :
              Persisted[i] = IF Persisted[i].name \in SpecNames(U)
                             THEN LastOf(U, Persisted[i].name)
                             ELSE DictGet(baseline, Persisted[i].name)

\* a call whose remove_specs name a package that neither the baseline nor
\* update_specs has, and whose update_specs replace a baseline spec
C1_Witness ==
    /\ pc = "called"
    /\ \E n \in SpecNames(R) : n \notin DictNames(baseline) \cup SpecNames(U)
    /\ \E i \in 1..Len(Persisted) :
          /\ Persisted[i].name \in SpecNames(U) \cap DictNames(baseline)
          /\ Persisted[i] # DictGet(baseline, Persisted[i].name)

\* C2 as stated: a package named by both update_specs and remove_specs is
\* persisted with the updated constraint.
C2_UpdateWins ==
    Called =>
        \A n \in SpecNames(U) \cap SpecNames(R) :
            /\ n \in SpecNames(Persisted)
            /\ LastOf(U, n) \in Range(Persisted)

\* C2, as the code has it: a package named by both update_specs and remove_specs is
\* absent from the persisted env file: the removal is applied after the update.
C2_RemoveWins ==
    Called => SpecNames(U) \cap SpecNames(R) \cap SpecNames(Persisted) = {}

\* a call that updates and removes the same package, which the baseline has too
C2_Witness ==
    /\ pc = "called"
    /\ SpecNames(U) \cap SpecNames(R) \cap DictNames(baseline) # {}
    /\ Persisted # <<>>

\* C3: a second update_state call with the same arguments leaves the env file
\* as the first call left it.
C3_Idempotent ==
    pc = "repeated" => manifest = before

\* two calls in a row that both update and remove, with packages left over
C3_Witness ==
    /\ pc = "repeated"
    /\ U # <<>>
    /\ R # <<>>
    /\ SpecNames(U) \cap SpecNames(Persisted) # {}

\* C4: with an env file at the prefix the baseline is that file's requested
\* packages and nothing of the history; without one it is the history's map.
C4_BaselineByExistence ==
    Called =>
        IF before # NoFile
        THEN Range(baseline) = {MatchSpec(s) : s \in Range(before[1].requested_packages)}
        ELSE baseline = history

\* a call on a prefix whose env file lists no packages while the history does
C4_Witness ==
    /\ pc = "called"
    /\ before # NoFile
    /\ before[1].requested_packages = <<>>
    /\ history # <<>>
    /\ baseline = <<>>

\* C5 as stated: the PyPI dependencies of the env file survive update_state.
C5_PyPIPreserved ==
    (pc = "called" /\ before # NoFile /\ before[1].external_packages # <<>>)
        => manifest[1].external_packages = before[1].external_packages

-----------------------------------------------------------------------------
(* The conda dependency normalizer: validate_match_spec and                 *)
(* serialize_match_spec (spec.py).  A Python value carries its class, which *)
(* is what isinstance() reads.                                              *)

\* longest dependency mapping given to the normalizer
MaxEntries == 2

\* the keys of a dependencies table, in ascending string order
DepNames == <<"flask", "numpy", "python">>

DepNameSet == {DepNames[i] : i \in 1..Len(DepNames)}

NameIndex(n) == CHOOSE i \in 1..Len(DepNames) : DepNames[i] = n

\* a.name <= b.name, as Python compares the two strings
NameLeq(a, b) == NameIndex(a) <= NameIndex(b)

Str(text) == [class |-> "str", value |-> text]

Dict(items) == [class |-> "dict", items |-> items]

PyInt(text) == [class |-> "int", value |-> text]

\* str(item) and type(item), as the error message prints them
PyStr(item) == item.value

PyType(item) == item.class

\* a call that returned v; a call that raised e
Ok(v) == [ok |-> TRUE, value |-> v]

Raise(e) == [ok |-> FALSE, error |-> e]

\* MatchSpec(name=name, **fields)
MatchSpecKw(name, fields) == [class |-> "MatchSpec", name |-> name] @@ fields

\* EditablePackage(name=name, **item) validates when path and editable are given
EditableValid(item) == {"path", "editable"} \subseteq DOMAIN item

EditablePackage(name, item) ==
    [class |-> "EditablePackage", name |-> name, path |-> item.path,
     editable |-> item.editable]

\* an error that names the package and leaves the value out
UnsupportedTypeNamed(name, item) ==
    [class |-> "ValueError",
     message |-> <<"Unsupported type (", PyType(item),
                   ") encountered while validating a match spec: ", name>>]

\* lines 78-81: the error for a value of no supported type
UnsupportedType(name, item) ==
    [class |-> "ValueError",
     message |-> <<"Unsupported type (", PyType(item),
                   ") encountered while validating a match spec: ", PyStr(item)>>]

RECURSIVE ValidateItems(_, _)
\* lines 65-81: the loop over value.items(), which stops at the first raise
ValidateItems(entries, items) ==
    IF entries = <<>> THEN Ok(items)
    ELSE LET name == Head(entries)[1]
             item == Head(entries)[2]
         IN  IF item.class = "MatchSpec"
             THEN ValidateItems(Tail(entries), Append(items, item))
             ELSE IF item.class = "str"
             THEN ValidateItems(Tail(entries),
                                Append(items, MatchSpecKw(name, [version |-> item.value])))
             ELSE IF item.class = "dict"
             THEN ValidateItems(Tail(entries),
                                Append(items, IF EditableValid(item.items)
                                              THEN EditablePackage(name, item.items)
                                              ELSE MatchSpecKw(name, item.items)))
             ELSE Raise(UnsupportedType(name, item))

RECURSIVE SortedByName(_)
\* sorted(items, key=lambda x: x.name): stable, equal names keep their order
SortedByName(items) ==
    IF items = <<>> THEN <<>>
    ELSE LET x == items[Len(items)]
             rest == SortedByName(SubSeq(items, 1, Len(items) - 1))
             k == Cardinality({i \in 1..Len(rest) : NameLeq(rest[i].name, x.name)})
         IN  SubSeq(rest, 1, k) \o <<x>> \o SubSeq(rest, k + 1, Len(rest))

\* validate_match_spec: a list is sorted as it is, a mapping entry by entry
validate_match_spec(value) ==
    IF value.class = "list" THEN Ok(SortedByName(value.items))
    ELSE LET r == ValidateItems(value.items, <<>>)
         IN  IF r.ok THEN Ok(SortedByName(r.value)) ELSE r

\* items[key] = value on a dict held as a sequence of <<key, value>>
EntrySet(entries, key, value) ==
    IF \E i \in 1..Len(entries) : entries[i][1] = key
    THEN [i \in 1..Len(entries) |->
            IF entries[i][1] = key THEN <<key, value>> ELSE entries[i]]
    ELSE Append(entries, <<key, value>>)

RECURSIVE SerializeItems(_, _)
\* lines 99-108
SerializeItems(specs, items) ==
    IF specs = <<>> THEN items
    ELSE LET spec == Head(specs)
         IN  SerializeItems(
                Tail(specs),
                IF spec.class = "MatchSpec"
                THEN EntrySet(items, spec.name,
                              Str(IF "version" \in DOMAIN spec THEN spec.version ELSE "*"))
                ELSE EntrySet(items, spec.name,
                              Dict([path |-> spec.path, editable |-> spec.editable])))

\* serialize_match_spec
serialize_match_spec(specs) == Dict(SerializeItems(specs, <<>>))

\* a == b in Python: EditablePackage.__eq__ reads the names alone (lines 446-449)
PyEq(a, b) ==
    IF a.class = "EditablePackage" /\ b.class = "EditablePackage"
    THEN a.name = b.name
    ELSE a = b

ListEq(a, b) == Len(a) = Len(b) /\ \A i \in 1..Len(a) : PyEq(a[i], b[i])

-----------------------------------------------------------------------------
(* The mappings the normalizer is given *)

\* constraints already typed; their names are their own, not the key's
TypedSpecs ==
    {[class |-> "MatchSpec", name |-> n, version |-> "2.0"] : n \in DepNameSet}

\* the tables of a dependencies section
Tables ==
    {Dict([path |-> ".", editable |-> TRUE]),
     Dict([version |-> "1.0", build |-> "py310"])}

RawValues == {Str("*"), Str("1.0"), PyInt("3")} \cup TypedSpecs \cup Tables

\* a mapping's entries: distinct keys, any insertion order
RawEntries ==
    {e \in SeqsUpTo(DepNameSet \X RawValues, MaxEntries) :
        \A i, j \in 1..Len(e) : i # j => e[i][1] # e[j][1]}

Orders(n) == {p \in [1..n -> 1..n] : \A i, j \in 1..n : i # j => p[i] # p[j]}

\* validate_match_spec(raw)
Validate ==
    /\ dpc = "raw"
    /\ deps' = validate_match_spec(raw)
    /\ dpc' = "validated"
    /\ UNCHANGED <<raw, reordered, dumped, reparsed, stateVars, pypiVars, combineVars, docVars, laterVars>>

\* validate_match_spec on the same entries inserted in the order p
ValidateReordered(p) ==
    /\ dpc = "validated"
    /\ LET mapping == Dict([i \in 1..Len(raw.items) |-> raw.items[p[i]]])
       IN  reordered' = [mapping |-> mapping, result |-> validate_match_spec(mapping)]
    /\ dpc' = "reordered"
    /\ UNCHANGED <<raw, deps, dumped, reparsed, stateVars, pypiVars, combineVars, docVars, laterVars>>

\* serialize_match_spec of the normalized list
Serialize ==
    /\ dpc = "validated"
    /\ deps.ok
    /\ dumped' = serialize_match_spec(deps.value)
    /\ dpc' = "serialized"
    /\ UNCHANGED <<raw, deps, reordered, reparsed, stateVars, pypiVars, combineVars, docVars, laterVars>>

\* validate_match_spec of what was serialized
Reparse ==
    /\ dpc = "serialized"
    /\ reparsed' = validate_match_spec(dumped)
    /\ dpc' = "reparsed"
    /\ UNCHANGED <<raw, deps, reordered, dumped, stateVars, pypiVars, combineVars, docVars, laterVars>>

\* the reconciler at rest
StateIdle ==
    /\ manifest = NoFile
    /\ history = <<>>
    /\ before = NoFile
    /\ baseline = <<>>
    /\ remove_specs = Absent
    /\ update_specs = Absent
    /\ pc = "idle"

DepsInit ==
    /\ raw \in {Dict(e) : e \in RawEntries}
    /\ deps = <<>>
    /\ reordered = <<>>
    /\ dumped = <<>>
    /\ reparsed = <<>>
    /\ dpc = "raw"
    /\ StateIdle
    /\ PyPIIdle
    /\ CombineIdle
    /\ DocIdle
    /\ LaterIdle

DepsNext ==
    \/ Validate
    \/ \E p \in Orders(Len(raw.items)) : ValidateReordered(p)
    \/ Serialize
    \/ Reparse

DepsSpec == DepsInit /\ [][DepsNext]_vars

-----------------------------------------------------------------------------
(* Claims about the dependency normalizer *)

Validated == dpc \in {"validated", "reordered", "serialized", "reparsed"}

IsSortedByName(items) ==
    \A i, j \in 1..Len(items) : i < j => NameLeq(items[i].name, items[j].name)

Supported(item) == item.class \in {"MatchSpec", "str", "dict"}

\* the first entry of raw whose value is of no supported type
FirstUnsupported ==
    CHOOSE i \in 1..Len(raw.items) :
        /\ ~Supported(raw.items[i][2])
        /\ \A j \in 1..(i - 1) : Supported(raw.items[j][2])

\* C6 as stated: parsing the serialized form of a normalized dependency list
\* gives the list back, structured constraints and editable packages included.
C6_RoundTrip ==
    dpc = "reparsed" => reparsed.ok /\ ListEq(reparsed.value, deps.value)

\* C7 as stated: the normalized list is sorted ascending by name, and the same
\* entries inserted in another order normalize to the same list.
C7_SortedOrderIndependent ==
    /\ (Validated /\ deps.ok) => IsSortedByName(deps.value)
    /\ (dpc = "reordered" /\ deps.ok) =>
            reordered.result.ok /\ ListEq(reordered.result.value, deps.value)

-----------------------------------------------------------------------------
(* PyPI dependencies: PyPIDependency.to_pip, PyPIDependencies.to_pip and    *)
(* TomlSingleEnvironment.get_external_packages (spec.py).  A version is a   *)
(* string of characters, so that version[0] can be read.                    *)

\* longest version string of a PyPI dependency
MaxVersionLen == 2

\* the names of the PyPI dependencies, in ascending string order
PyPINames == <<"numpy", "pkg">>

\* string.digits
Digits == {"0", "1", "2", "3", "4", "5", "6", "7", "8", "9"}

\* the characters a version string is made of
VersionChars == {"2", "<", ">", "~", "=", "*"}

VersionStrings == SeqsUpTo(VersionChars, MaxVersionLen)

\* if x: None and False are falsy
Truthy(x) == x = Some(TRUE)

\* PyPIDependency(name=, version=, path=, editable=); a field not given is None
PyPIDependency(name, version, path, editable) ==
    [class |-> "PyPIDependency", name |-> name, version |-> version,
     path |-> path, editable |-> editable]

\* a digit-led version appended without the == operator
to_pip_unpinned(dep) ==
    IF Truthy(dep.editable) THEN Ok(<<dep.name>>)
    ELSE IF dep.version = Absent \/ dep.version[1] \in {<<"*">>, <<>>}
    THEN Ok(<<dep.name>>)
    ELSE IF dep.version[1][1] \in Digits \cup {"<", ">"}
    THEN Ok(<<dep.name>> \o dep.version[1])
    ELSE Raise([class |-> "ValueError",
                message |-> <<"Cannot convert PyPI dependency to pip format: ",
                              [name |-> dep.name, version |-> dep.version[1]]>>])

\* PyPIDependency.to_pip, lines 578-601
to_pip(dep) ==
    IF Truthy(dep.editable) THEN Ok(<<dep.name>>)
    ELSE IF dep.version = Absent \/ dep.version[1] \in {<<"*">>, <<>>}
    THEN Ok(<<dep.name>>)
    ELSE IF dep.version[1][1] \in Digits
    THEN Ok(<<dep.name, "=", "=">> \o dep.version[1])
    ELSE IF dep.version[1][1] \in {"<", ">"}
    THEN Ok(<<dep.name>> \o dep.version[1])
    ELSE Raise([class |-> "ValueError",
                message |-> <<"Cannot convert PyPI dependency to pip format: ",
                              [name |-> dep.name, version |-> dep.version[1]]>>])

RECURSIVE ToPipList(_, _)
\* PyPIDependencies.to_pip, line 527: the first to_pip() that raises ends the list
ToPipList(dependencies, out) ==
    IF dependencies = <<>> THEN Ok(out)
    ELSE LET r == to_pip(Head(dependencies))
         IN  IF r.ok THEN ToPipList(Tail(dependencies), Append(out, r.value)) ELSE r

\* TomlSingleEnvironment.get_external_packages, line 722
get_external_packages(dependencies) ==
    LET r == ToPipList(dependencies, <<>>)
    IN  IF r.ok THEN Ok([pip |-> r.value]) ELSE r

\* the shapes one PyPI dependency takes: a version or none, or a path with the
\* editable flag set or cleared
DependencyKinds(name) ==
    {PyPIDependency(name, v, Absent, Absent) :
        v \in {Absent} \cup {Some(t) : t \in VersionStrings}}
    \cup {PyPIDependency(name, Absent, Some("."), Some(e)) : e \in BOOLEAN}

\* a validated list: sorted by name, one dependency for each name at most
PyPILists ==
    {<<>>}
    \cup {<<d>> : d \in DependencyKinds(PyPINames[1]) \cup DependencyKinds(PyPINames[2])}
    \cup {<<d, e>> : d \in DependencyKinds(PyPINames[1]), e \in DependencyKinds(PyPINames[2])}

\* dep.to_pip() on the i-th dependency
ToPip(i) ==
    /\ ppc = "loaded"
    /\ pip' = [dep |-> pypi[i], result |-> to_pip(pypi[i])]
    /\ ppc' = "converted"
    /\ UNCHANGED <<pypi, external, warnings, stateVars, depsVars, combineVars, docVars, laterVars>>

\* model.get_external_packages(), as _model_to_environment calls it (line 256);
\* nothing on this path emits a warning
GetExternalPackages ==
    /\ ppc = "loaded"
    /\ external' = get_external_packages(pypi)
    /\ ppc' = "exported"
    /\ UNCHANGED <<pypi, pip, warnings, stateVars, depsVars, combineVars, docVars, laterVars>>

PyPIInit ==
    /\ pypi \in PyPILists
    /\ pip = <<>>
    /\ external = <<>>
    /\ warnings = <<>>
    /\ ppc = "loaded"
    /\ StateIdle
    /\ DepsIdle
    /\ CombineIdle
    /\ DocIdle
    /\ LaterIdle

PyPINext ==
    \/ \E i \in 1..Len(pypi) : ToPip(i)
    \/ GetExternalPackages

PyPISpec == PyPIInit /\ [][PyPINext]_vars

-----------------------------------------------------------------------------
(* Claims about the PyPI dependencies *)

\* C9: to_pip on a non-editable dependency gives the bare name for version
\* None, "" or "*", name==version for a version that starts with a digit, the
\* name followed by the version for one that starts with < or >, and raises
\* ValueError for every other version.
C9_ToPipByVersion ==
    (ppc = "converted" /\ ~Truthy(pip.dep.editable)) =>
        LET name == pip.dep.name
            version == pip.dep.version
        IN  IF version = Absent \/ version = Some(<<>>) \/ version = Some(<<"*">>)
            THEN pip.result = Ok(<<name>>)
            ELSE IF Head(version[1]) \in Digits
            THEN pip.result = Ok(<<name>> \o <<"=", "=">> \o version[1])
            ELSE IF Head(version[1]) \in {"<", ">"}
            THEN pip.result = Ok(<<name>> \o version[1])
            ELSE ~pip.result.ok /\ pip.result.error.class = "ValueError"

\* to_pip raised on a version that starts with ~
C9_Witness ==
    /\ ppc = "converted"
    /\ ~Truthy(pip.dep.editable)
    /\ pip.dep.version # Absent
    /\ pip.dep.version[1] # <<>>
    /\ Head(pip.dep.version[1]) = "~"
    /\ ~pip.result.ok

\* the non-editable dependencies of a list, in order
NonEditable(dependencies) == SelectSeq(dependencies, LAMBDA d : ~Truthy(d.editable))

\* C10 as stated: the pip list holds the pip strings of the non-editable
\* dependencies and no others, and a warning names each editable one dropped.
C10_EditableDropped ==
    (ppc = "exported" /\ external.ok) =>
        /\ external.value.pip =
              [i \in 1..Len(NonEditable(pypi)) |-> to_pip(NonEditable(pypi)[i]).value]
        /\ \A i \in 1..Len(pypi) :
              Truthy(pypi[i].editable) =>
                  \E w \in 1..Len(warnings) : pypi[i].name \in Range(warnings[w])

-----------------------------------------------------------------------------
(* Merging configurations: TomlSpec._combine and the config of the          *)
(* Environment that TomlSpec._model_to_environment builds (spec.py).  An    *)
(* EnvironmentConfig is an object: _combine is given identities, and what   *)
(* an identity holds is looked up in `objects`.                             *)

\* most override configs passed to _combine after the base
MaxOverrides == 2

\* fields(config), for the fields followed here
Fields == {"channels", "channel_priority", "use_only_tar_bz2"}

\* the values an EnvironmentConfig can hold: a field is None, empty or False, or set
EnvironmentConfigs ==
    [channels : {Absent, Some(<<>>), Some(<<"conda-forge">>)},
     channel_priority : {Absent, Some(ChannelPriority("strict"))},
     use_only_tar_bz2 : {Absent, Some(FALSE), Some(TRUE)}]

\* the base's value kept wherever the base has one
OverrideBaseFirst(value, base) ==
    IF base = Absent THEN value ELSE base

\* lines 284-286: the override's value, or the base's when that value is None
Override(value, base) ==
    IF value = Absent THEN base ELSE value

RECURSIVE CombineObjects(_, _)
\* lines 281-288: every field of every later config is set on configs[0]
CombineObjects(objs, ids) ==
    IF Len(ids) < 2 THEN objs
    ELSE LET config == objs[ids[2]]
             merged == [field \in Fields |-> Override(config[field], objs[ids[1]][field])]
         IN  CombineObjects([objs EXCEPT ![ids[1]] = merged],
                            <<ids[1]>> \o SubSeq(ids, 3, Len(ids)))

\* EnvironmentConfig.from_context()
from_context ==
    [channels |-> Some(ContextConfig.channels),
     channel_priority |-> Some(ContextConfig.channel_priority),
     use_only_tar_bz2 |->
        IF ContextConfig.use_only_tar_bz2 = None THEN Absent
        ELSE Some(ContextConfig.use_only_tar_bz2)]

\* Config.model_validate(table): channels and platforms default to [],
\* variables to {}
Config(table) ==
    [channels |-> IF "channels" \in DOMAIN table THEN table.channels ELSE <<>>,
     platforms |-> IF "platforms" \in DOMAIN table THEN table.platforms.items ELSE <<>>,
     variables |-> IF "variables" \in DOMAIN table THEN table.variables ELSE <<>>]

\* TomlEnvironment.config: the table validated, or the default Config()
ModelConfig(config) ==
    IF config = Absent THEN Config(<<>>) ELSE Config(config[1])

\* Config.get_environment_config: EnvironmentConfig(channels=self.channels)
get_environment_config(config) ==
    [channels |-> Some(config.channels),
     channel_priority |-> Absent,
     use_only_tar_bz2 |-> Absent]

\* the config tables of a manifest: none, one without channels, one with
ConfigTables ==
    {Absent, Some(<<>>), Some([channels |-> <<>>]), Some([channels |-> <<"conda-forge">>])}

\* TomlSpec._combine(*configs)
Combine ==
    /\ cpc = "start"
    /\ entry' = objects
    /\ objects' = CombineObjects(objects, configs)
    /\ env_config' = Some(configs[1])
    /\ cpc' = "combined"
    /\ UNCHANGED <<configs, model, converted, stateVars, depsVars, pypiVars, docVars, laterVars>>

\* TomlSpec._model_to_environment(model): the prefix, the platform and the config
ModelToEnvironment ==
    /\ cpc = "loaded"
    /\ LET made == <<from_context, get_environment_config(ModelConfig(model))>>
           after == CombineObjects(made, <<1, 2>>)
       IN  /\ entry' = made
           /\ objects' = after
           /\ configs' = <<1, 2>>
           /\ env_config' = Some(1)
           /\ converted' = [prefix |-> Prefix, platform |-> ContextSubdir,
                            config |-> after[1]]
    /\ cpc' = "converted"
    /\ UNCHANGED <<model, stateVars, depsVars, pypiVars, docVars, laterVars>>

CombineInit ==
    /\ \/ /\ \E n \in 2..(1 + MaxOverrides) : objects \in [1..n -> EnvironmentConfigs]
          /\ configs = [i \in 1..Len(objects) |-> i]
          /\ model = <<>>
          /\ cpc = "start"
       \/ /\ objects = <<>>
          /\ configs = <<>>
          /\ model \in ConfigTables
          /\ cpc = "loaded"
    /\ entry = <<>>
    /\ env_config = <<>>
    /\ converted = <<>>
    /\ StateIdle
    /\ DepsIdle
    /\ PyPIIdle
    /\ DocIdle
    /\ LaterIdle

CombineNext ==
    \/ Combine
    \/ ModelToEnvironment

CombineSpec == CombineInit /\ [][CombineNext]_vars

-----------------------------------------------------------------------------
(* Claims about merging configurations *)

\* C11: for two configs A and B, every field of combine(A, B) has B's value
\* when B sets it, an empty list or False included, and A's value when B has
\* None there.
C11_RightBias ==
    (cpc = "combined" /\ Len(configs) = 2) =>
        \A field \in Fields :
            objects[env_config[1]][field] =
                IF entry[configs[2]][field] # Absent
                THEN entry[configs[2]][field]
                ELSE entry[configs[1]][field]

\* B sets channels to the empty list and use_only_tar_bz2 to False over a base
\* that has other values, and leaves channel_priority unset
C11_Witness ==
    /\ cpc = "combined"
    /\ Len(configs) = 2
    /\ entry[1].channels = Some(<<"conda-forge">>)
    /\ entry[1].use_only_tar_bz2 = Some(TRUE)
    /\ entry[1].channel_priority # Absent
    /\ entry[2] = [channels |-> Some(<<>>), channel_priority |-> Absent,
                   use_only_tar_bz2 |-> Some(FALSE)]
    /\ objects[env_config[1]] = [channels |-> Some(<<>>),
                                 channel_priority |-> entry[1].channel_priority,
                                 use_only_tar_bz2 |-> Some(FALSE)]

\* C12 as stated: combine returns a new object and every input holds after the
\* call what it held before.
C12_InputsUnchanged ==
    cpc = "combined" =>
        /\ env_config[1] \notin Range(configs)
        /\ \A c \in Range(configs) : objects[c] = entry[c]

\* C13 as stated: a manifest that does not give channels gets the channels of
\* EnvironmentConfig.from_context() in the Environment built from it.
C13_UnsetDefersToContext ==
    (cpc = "converted" /\ (model = Absent \/ "channels" \notin DOMAIN model[1])) =>
        converted.config.channels = from_context.channels

-----------------------------------------------------------------------------
(* Validating manifest documents: TomlEnvironment.model_validate and its    *)
(* two variants, TomlSpec._load on a dict (spec.py), and the CondaManifest  *)
(* schema (_schema.py).  A document is a dict: a function whose domain is   *)
(* the set of keys it has.  A pydantic model without an `extra` setting     *)
(* ignores the keys it has no field for, and a field validator does not run *)
(* on a default.                                                            *)

\* a dict with one key, or without it
OptionalKey(key, values) ==
    {[k \in {} |-> Absent]} \cup {[k \in {key} |-> v] : v \in values}

Has(doc, key) == key \in DOMAIN doc

\* an about table that has what both About and Project require
AboutTable == [name |-> "demo", revision |-> "1", description |-> "d", license |-> "MIT"]

\* dependencies tables: empty, a version string, a value of no supported type
DependencyTables ==
    {Dict(<<>>), Dict(<< <<"python", Str("*")>> >>), Dict(<< <<"python", PyInt("3")>> >>)}

\* config tables: known keys only, and with a key Config has no field for
DocConfigTables ==
    {[channels |-> <<"conda-forge">>],
     [channels |-> <<"conda-forge">>, experimental |-> "1"]}

\* the groups a document can define; its environments list b, defined or not,
\* and c, never defined
GroupNames == {"a", "b"}

\* the keys of `environments`, in the order the document has them
EnvNames == <<"default", "test">>

\* a list of group names without repeats, in ascending order
GroupLists == {<<>>, <<"b">>, <<"c">>, <<"b", "c">>}

GroupTables == UNION {[g -> {[description |-> "group"]}] : g \in SUBSET GroupNames}

EnvironmentTables == UNION {[e -> GroupLists] : e \in SUBSET Range(EnvNames)}

\* the prefix a serialized Environment names: not the one the context targets
OtherPrefix == "/envs/other"

\* None where the other values are tables
PyNone == [class |-> "NoneType"]

Documents ==
    {a @@ c @@ d @@ p @@ g @@ e @@ x :
        a \in OptionalKey("about", {AboutTable}),
        c \in OptionalKey("config", DocConfigTables),
        d \in OptionalKey("dependencies", DependencyTables),
        g \in OptionalKey("groups", GroupTables),
        e \in OptionalKey("environments", EnvironmentTables),
        p \in OptionalKey("pypi-dependencies", {Dict(<<>>)}),
        x \in OptionalKey("prefix", {OtherPrefix}) \cup OptionalKey("bogus", {"1"})}

\* one entry of ValidationError.errors()
Missing(loc) == [loc |-> loc, type |-> "missing", msg |-> <<"Field required">>]

ValueErr(loc, msg) == [loc |-> loc, type |-> "value_error", msg |-> msg]

ExtraForbidden(loc) ==
    [loc |-> loc, type |-> "extra_forbidden", msg |-> <<"Extra inputs are not permitted">>]

ValidationError(title, errors) ==
    [class |-> "ValidationError", title |-> title, errors |-> errors]

\* a positional element: a tuple, a list, a PrefixRecord
PyTuple(items) == [class |-> "tuple", items |-> items]

PyList(items) == [class |-> "list", items |-> items]

PrefixRecord(name, version) == [class |-> "PrefixRecord", name |-> name, version |-> version]

\* obj.get(key): None when the mapping has no such key
Opt(rec, key) == IF key \in DOMAIN rec THEN Some(rec[key]) ELSE Absent

\* `name, obj = value`, lines 550-553: a PrefixRecord gives its name and version,
\* anything else is unpacked and must hold two elements; the strings followed
\* here are longer than that
Unpack(value) ==
    IF value.class = "PrefixRecord" THEN Ok(<<value.name, Str(value.version)>>)
    ELSE IF value.class \in {"tuple", "list"} /\ Len(value.items) = 2 THEN Ok(value.items)
    ELSE Raise([class |-> "ValueError",
                message |-> IF value.class = "str" \/ Len(value.items) > 2
                            THEN <<"too many values to unpack (expected 2)">>
                            ELSE <<"not enough values to unpack (expected 2)">>])

\* PyPIDependency.model_validate(value), lines 545-566: the version of a string,
\* the keys of a mapping
PyPIDependencyValidate(value) ==
    LET pair == Unpack(value)
    IN  IF ~pair.ok THEN pair
        ELSE LET name == pair.value[1]
                 obj == pair.value[2]
             IN  IF obj.class = "str"
                 THEN Ok(PyPIDependency(name, Some(obj.value), Absent, Absent))
                 ELSE IF obj.class = "dict"
                 THEN Ok(PyPIDependency(name, Opt(obj.items, "version"),
                                        Opt(obj.items, "path"), Opt(obj.items, "editable")))
                 ELSE Raise([class |-> "ValueError",
                             message |-> <<"Unsupported type (", obj.class,
                                           ") encountered while validating a pypi dependency">>])

\* line 492: items.append(value), where value is the list being validated
KeepInstance(value, item) == value

RECURSIVE PyPIItems(_, _, _)
\* lines 488-498: the loop over a list, or over the items of a mapping; it
\* stops at the first element that does not validate
PyPIItems(value, rest, items) ==
    IF rest = <<>> THEN Ok(items)
    ELSE LET item == Head(rest)
         IN  IF value.class = "list" /\ item.class = "PyPIDependency"
             THEN PyPIItems(value, Tail(rest), Append(items, KeepInstance(value, item)))
             ELSE LET r == PyPIDependencyValidate(
                               IF value.class = "list" THEN item ELSE PyTuple(item))
                  IN  IF r.ok THEN PyPIItems(value, Tail(rest), Append(items, r.value))
                      ELSE r

PyPINameIndex(n) == CHOOSE i \in 1..Len(PyPINames) : PyPINames[i] = n

RECURSIVE SortedPyPI(_)
\* sorted(items) on PyPIDependency objects, which compare by name (lines 568-576);
\* the sort is stable
SortedPyPI(items) ==
    IF items = <<>> THEN <<>>
    ELSE LET x == items[Len(items)]
             rest == SortedPyPI(SubSeq(items, 1, Len(items) - 1))
             k == Cardinality({i \in 1..Len(rest) :
                      PyPINameIndex(rest[i].name) <= PyPINameIndex(x.name)})
         IN  SubSeq(rest, 1, k) \o <<x>> \o SubSeq(rest, k + 1, Len(rest))

\* sorted(items), line 500: PyPIDependency objects are ordered by name; a list
\* compares with itself and not with a PyPIDependency, whose __gt__ then
\* compares a str with a list
SortedItems(items) ==
    LET kinds == {items[i].class : i \in 1..Len(items)}
    IN  IF kinds \subseteq {"PyPIDependency"} THEN Ok(SortedPyPI(items))
        ELSE IF kinds = {"list"} THEN Ok(items)
        ELSE Raise([class |-> "TypeError",
                    message |-> <<"'>' not supported between instances of 'str' and 'list'">>])

RECURSIVE RootItems(_, _)
\* the root field, list[PyPIDependency], line 468: an instance is taken as it
\* is, anything else goes through PyPIDependency.model_validate
RootItems(items, out) ==
    IF items = <<>> THEN Ok(out)
    ELSE IF Head(items).class = "PyPIDependency"
    THEN RootItems(Tail(items), Append(out, Head(items)))
    ELSE LET r == PyPIDependencyValidate(Head(items))
         IN  IF r.ok THEN RootItems(Tail(items), Append(out, r.value)) ELSE r

\* line 500, reached when the loop made every item
SortedIfMade(made) == IF made.ok THEN SortedItems(made.value) ELSE made

\* the root field is validated when the validator returned
RootIfSorted(sorted) == IF sorted.ok THEN RootItems(sorted.value, <<>>) ELSE sorted

\* what reaches the caller of model_validate
Reported(root) ==
    IF root.ok \/ root.error.class = "TypeError" THEN root
    ELSE Raise(ValidationError("PyPIDependencies",
                               <<ValueErr("pypi_dependencies", root.error.message)>>))

\* PyPIDependencies.model_validate(value), lines 464-500: an error raised for
\* an element is reported as a ValidationError, a TypeError of sorted() is not
\* caught
PyPIDependenciesValidate(value) ==
    Reported(RootIfSorted(SortedIfMade(PyPIItems(value, value.items, <<>>))))

\* the fields of TomlEnvironment, lines 627-630: about is required
BaseErrors(doc) ==
    IF Has(doc, "about") THEN <<>> ELSE <<Missing("about")>>

\* the value given for a field, by its alias or by its name (lines 681-685)
FieldValue(doc, name, alias) ==
    IF Has(doc, alias) THEN Some(doc[alias])
    ELSE IF Has(doc, name) THEN Some(doc[name])
    ELSE Absent

\* one entry of ValidationError.errors() for a value of the wrong type
TypeErr(loc, type) == [loc |-> loc, type |-> type, msg |-> <<"Input should be a valid ", type>>]

\* the config field, Config | None (line 628): platforms is a list[str], which
\* a mapping is not
ConfigErrors(doc) ==
    IF Has(doc, "config") /\ doc.config # PyNone /\ "platforms" \in DOMAIN doc.config
       /\ doc.config.platforms.class # "list"
    THEN <<TypeErr("config.platforms", "list_type")>>
    ELSE <<>>

\* the config field: None, the table validated by Config, or the default Config()
DocConfig(doc) ==
    IF Has(doc, "config") /\ doc.config = PyNone THEN PyNone
    ELSE ModelConfig(IF Has(doc, "config") THEN Some(doc.config) ELSE Absent)

\* the platform field, dict[str, Platform] (line 688)
PlatformErrors(doc) ==
    IF Has(doc, "platform") /\ doc.platform.class # "dict"
    THEN <<TypeErr("platform", "dict_type")>>
    ELSE <<>>

\* a PyPIDependencies object around the validated root
PyPIField(r) == IF r.ok THEN Ok([class |-> "PyPIDependencies", root |-> r.value]) ELSE r

\* the pypi_dependencies field (line 689): the value validated by
\* PyPIDependencies; the default [] is a plain list, which no validator sees
DocPyPI(doc) ==
    IF FieldValue(doc, "pypi_dependencies", "pypi-dependencies") = Absent
    THEN Ok(PyList(<<>>))
    ELSE PyPIField(PyPIDependenciesValidate(
                       FieldValue(doc, "pypi_dependencies", "pypi-dependencies")[1]))

\* the dependencies field (line 687)
DependenciesField(doc) ==
    IF Has(doc, "dependencies") THEN validate_match_spec(doc.dependencies) ELSE Ok(<<>>)

\* the errors of the fields, in the order of the fields
SingleErrors(doc, d, pypi_deps) ==
    BaseErrors(doc)
    \o ConfigErrors(doc)
    \o (IF d.ok THEN <<>> ELSE <<ValueErr("dependencies", d.error.message)>>)
    \o PlatformErrors(doc)
    \o (IF pypi_deps.ok \/ pypi_deps.error.class = "TypeError" THEN <<>>
        ELSE pypi_deps.error.errors)

\* the model, or the error of the call
SingleChecked(doc, d, pypi_deps, errors) ==
    IF ~pypi_deps.ok /\ pypi_deps.error.class = "TypeError" THEN pypi_deps
    ELSE IF errors = <<>>
    THEN Ok([class |-> "TomlSingleEnvironment", about |-> doc.about,
             config |-> DocConfig(doc), dependencies |-> d.value,
             pypi_dependencies |-> pypi_deps.value])
    ELSE Raise(ValidationError("TomlSingleEnvironment", errors))

SingleFields(doc, d, pypi_deps) ==
    SingleChecked(doc, d, pypi_deps, SingleErrors(doc, d, pypi_deps))

\* TomlSingleEnvironment.model_validate, by way of line 645: dependencies goes
\* through validate_match_spec, keys without a field are ignored; the errors
\* of all fields are reported together, and an error that is no ValueError
\* ends the call
SingleValidate(doc) == SingleFields(doc, DependenciesField(doc), DocPyPI(doc))

\* _validate_groups, lines 749-757: runs when the document has the key
GroupsErrors(doc) ==
    IF Has(doc, "groups") /\ DOMAIN doc.groups = {}
    THEN <<ValueErr("groups",
           <<"At least one group is required in a multi-environment specification.">>)>>
    ELSE <<>>

\* info.data.get("groups", {}), line 788: the groups when they validated
ValidatedGroups(doc) ==
    IF Has(doc, "groups") /\ GroupsErrors(doc) = <<>> THEN DOMAIN doc.groups ELSE {}

\* one undefined group of the environment, and no more
MissingFirstOf(env_groups, groups) ==
    IF Range(env_groups) \ groups = {} THEN {}
    ELSE {env_groups[CHOOSE i \in 1..Len(env_groups) :
            /\ env_groups[i] \notin groups
            /\ \A j \in 1..(i - 1) : env_groups[j] \in groups]}

\* line 794: set(env_groups) - groups
MissingOf(env_groups, groups) == Range(env_groups) \ groups

RECURSIVE MissingGroups(_, _, _)
\* lines 791-796: for each environment in order, the groups it lists that are
\* not defined, when there are any
MissingGroups(envs, names, groups) ==
    IF names = <<>> THEN <<>>
    ELSE LET env == Head(names)
             rest == MissingGroups(envs, Tail(names), groups)
         IN  IF env \in DOMAIN envs /\ MissingOf(envs[env], groups) # {}
             THEN <<[env |-> env, missing |-> MissingOf(envs[env], groups)]>> \o rest
             ELSE rest

\* every defined group, listed or not
ExtraGroupsAll(envs, groups) == groups

\* lines 789-800: the defined groups no environment lists
ExtraGroups(envs, groups) ==
    groups \ UNION {Range(envs[env]) : env \in DOMAIN envs}

\* _validate_environments, lines 759-821: runs when the document has the key
EnvironmentsErrors(doc) ==
    IF ~Has(doc, "environments") THEN <<>>
    ELSE IF DOMAIN doc.environments = {}
    THEN <<ValueErr("environments",
           <<"Multi-environment specifications must contain at least one environment.">>)>>
    ELSE LET missing_groups ==
                 MissingGroups(doc.environments, EnvNames, ValidatedGroups(doc))
         IN  IF missing_groups # <<>>
             THEN <<ValueErr("environments", missing_groups)>>
             ELSE <<>>

\* lines 813-819: the warning about groups that are never used
EnvironmentsWarnings(doc) ==
    IF Has(doc, "environments") /\ EnvironmentsErrors(doc) = <<>>
       /\ ExtraGroups(doc.environments, ValidatedGroups(doc)) # {}
    THEN <<[category |-> "UserWarning",
            message |-> "Some dependency groups were specified which were never used",
            groups |-> ExtraGroups(doc.environments, ValidatedGroups(doc))]>>
    ELSE <<>>

\* TomlMultiEnvironment.model_validate, by way of line 645
MultiValidate(doc) ==
    LET errors == BaseErrors(doc) \o GroupsErrors(doc) \o EnvironmentsErrors(doc)
    IN  IF errors = <<>>
        THEN Ok([class |-> "TomlMultiEnvironment", about |-> doc.about,
                 config |-> DocConfig(doc),
                 groups |-> IF Has(doc, "groups") THEN doc.groups ELSE <<>>,
                 environments |->
                    IF Has(doc, "environments") THEN doc.environments ELSE <<>>])
        ELSE Raise(ValidationError("TomlMultiEnvironment", errors))

\* lines 636-641 on what the two variants gave
FirstValid(single, multi) ==
    IF single.ok THEN single
    ELSE IF multi.ok THEN multi
    ELSE Raise(multi.error @@ [context |-> single.error])

\* TomlEnvironment.model_validate, lines 635-641: the single variant, and the
\* multi variant when that raised; an error raised while another is handled
\* keeps it as its __context__
EnvironmentValidate(doc) == FirstValid(SingleValidate(doc), MultiValidate(doc))

\* the warnings of a call of TomlEnvironment.model_validate
EnvironmentValidateWarnings(doc) ==
    IF SingleValidate(doc).ok THEN <<>> ELSE EnvironmentsWarnings(doc)

\* what reading an attribute the object does not have raises
AttributeError(type, name) ==
    [class |-> "AttributeError",
     message |-> <<"'", type, "' object has no attribute '", name, "'">>]

\* TomlSpec._model_to_environment(model), lines 250-260: the arguments are
\* evaluated in the order they are written, and the first that raises ends
\* the call
model_to_environment(m) ==
    IF m.config = PyNone THEN Raise(AttributeError("NoneType", "get_environment_config"))
    ELSE IF m.pypi_dependencies.class = "list" THEN Raise(AttributeError("list", "to_pip"))
    ELSE LET external_packages == get_external_packages(m.pypi_dependencies.root)
         IN  IF ~external_packages.ok THEN external_packages
             ELSE Ok([prefix |-> Prefix,
                      platform |-> ContextSubdir,
                      config |-> CombineObjects(
                          <<from_context, get_environment_config(m.config)>>, <<1, 2>>)[1],
                      external_packages |-> external_packages.value,
                      name |-> m.about.name,
                      requested_packages |-> m.dependencies,
                      variables |-> m.config.variables])

\* the error of lines 217-222
MisroutedError(cause) ==
    [class |-> "ValueError",
     message |-> <<"It looks like you are trying to pass a serialized ",
                   "conda.models.environment.Environment to instantiate a ",
                   "TomlSpec, but only serialized TomlSingleEnvironment ",
                   "dictionaries are supported.">>,
     cause |-> cause]

\* self._model and self._environment when the Environment could be made
Built(m, built) ==
    IF built.ok THEN Ok([model |-> m, environment |-> built.value]) ELSE built

\* a model, and the Environment made from it
Loaded(m) == Built(m, model_to_environment(m))

\* lines 214-225 on what model_validate gave
LoadValidated(obj, r) ==
    IF r.ok THEN Loaded(r.value)
    ELSE IF r.error.class = "ValidationError" /\ Has(obj, "prefix")
    THEN Raise(MisroutedError(r.error))
    ELSE r

\* TomlSpec(obj)._load() for a dict, lines 212-225
LoadDict(obj) == LoadValidated(obj, SingleValidate(obj))

\* the keys CondaManifest has a field for (_schema.py, lines 191-240)
SchemaKeys ==
    {"$schema", "version", "about", "platform", "config", "system-requirements",
     "dependencies", "pypi-dependencies"}

\* the keys of a document, in the order it has them
DocKeys ==
    <<"about", "config", "dependencies", "pypi-dependencies", "groups", "environments",
      "prefix", "bogus">>

\* CondaManifest.model_validate: extra="forbid" at the top level, extra="ignore"
\* in CondaConfig; a dependency is a string or a table of constraints
ManifestValidate(doc) ==
    LET bad == IF Has(doc, "dependencies")
               THEN SelectSeq(doc.dependencies.items,
                              LAMBDA item : item[2].class \notin {"str", "dict"})
               ELSE <<>>
        extra == SelectSeq(DocKeys, LAMBDA key : Has(doc, key) /\ key \notin SchemaKeys)
        errors == BaseErrors(doc)
                  \o [i \in 1..Len(bad) |->
                        [loc |-> "dependencies", type |-> "string_type",
                         msg |-> <<"Input should be a valid string">>]]
                  \o [i \in 1..Len(extra) |-> ExtraForbidden(extra[i])]
    IN  IF errors = <<>>
        THEN Ok([class |-> "CondaManifest", about |-> doc.about, version |-> "0"])
        ELSE Raise(ValidationError("CondaManifest", errors))

\* TomlEnvironment.model_validate(document)
ValidateEnvironment ==
    /\ vpc = "parsed"
    /\ outcome' = [call |-> "TomlEnvironment.model_validate",
                   result |-> EnvironmentValidate(document)]
    /\ warned' = EnvironmentValidateWarnings(document)
    /\ vpc' = "validated"
    /\ UNCHANGED <<document, stateVars, depsVars, pypiVars, combineVars, laterVars>>

\* TomlSingleEnvironment.model_validate(document)
ValidateSingle ==
    /\ vpc = "parsed"
    /\ outcome' = [call |-> "TomlSingleEnvironment.model_validate",
                   result |-> SingleValidate(document)]
    /\ warned' = <<>>
    /\ vpc' = "validated"
    /\ UNCHANGED <<document, stateVars, depsVars, pypiVars, combineVars, laterVars>>

\* TomlMultiEnvironment.model_validate(document)
ValidateMulti ==
    /\ vpc = "parsed"
    /\ outcome' = [call |-> "TomlMultiEnvironment.model_validate",
                   result |-> MultiValidate(document)]
    /\ warned' = EnvironmentsWarnings(document)
    /\ vpc' = "validated"
    /\ UNCHANGED <<document, stateVars, depsVars, pypiVars, combineVars, laterVars>>

\* TomlSpec(document)._load()
Load ==
    /\ vpc = "parsed"
    /\ outcome' = [call |-> "TomlSpec._load", result |-> LoadDict(document)]
    /\ warned' = <<>>
    /\ vpc' = "validated"
    /\ UNCHANGED <<document, stateVars, depsVars, pypiVars, combineVars, laterVars>>

\* CondaManifest.model_validate(document)
ValidateManifest ==
    /\ vpc = "parsed"
    /\ outcome' = [call |-> "CondaManifest.model_validate",
                   result |-> ManifestValidate(document)]
    /\ warned' = <<>>
    /\ vpc' = "validated"
    /\ UNCHANGED <<document, stateVars, depsVars, pypiVars, combineVars, laterVars>>

DocInit ==
    /\ document \in Documents
    /\ outcome = <<>>
    /\ warned = <<>>
    /\ vpc = "parsed"
    /\ StateIdle
    /\ DepsIdle
    /\ PyPIIdle
    /\ CombineIdle
    /\ LaterIdle

DocNext ==
    \/ ValidateEnvironment
    \/ ValidateSingle
    \/ ValidateMulti
    \/ Load
    \/ ValidateManifest

DocSpec == DocInit /\ [][DocNext]_vars

-----------------------------------------------------------------------------
(* Claims about validating manifest documents *)

Returned(call) == vpc = "validated" /\ outcome.call = call

\* the groups the document defines
Defined == IF Has(document, "groups") THEN DOMAIN document.groups ELSE {}

\* the groups the environments of the document list
Referenced ==
    IF Has(document, "environments")
    THEN UNION {Range(document.environments[env]) : env \in DOMAIN document.environments}
    ELSE {}

\* the environments that list a group the document does not define
WithUndefined ==
    IF Has(document, "environments")
    THEN {env \in DOMAIN document.environments :
            Range(document.environments[env]) \ Defined # {}}
    ELSE {}

\* the entries of the raised error that are about a key
ErrorsAt(loc) ==
    {i \in 1..Len(outcome.result.error.errors) : outcome.result.error.errors[i].loc = loc}

\* C14 as stated: TomlEnvironment.model_validate gives a TomlSingleEnvironment
\* for a document with non-empty (and well-formed) dependencies, and a
\* TomlMultiEnvironment for one with groups and environments and no
\* dependencies.
C14_VariantByContent ==
    (Returned("TomlEnvironment.model_validate") /\ outcome.result.ok) =>
        /\ (Has(document, "dependencies") /\ document.dependencies.items # <<>>
            /\ validate_match_spec(document.dependencies).ok)
              => outcome.result.value.class = "TomlSingleEnvironment"
        /\ (Has(document, "groups") /\ Has(document, "environments")
            /\ ~Has(document, "dependencies"))
              => outcome.result.value.class = "TomlMultiEnvironment"

\* C15 as stated: when neither variant validates, the error of
\* TomlEnvironment.model_validate has the failures of the single attempt and
\* those of the multi attempt.
C15_AggregatedError ==
    (Returned("TomlEnvironment.model_validate")
     /\ ~SingleValidate(document).ok /\ ~MultiValidate(document).ok) =>
        /\ ~outcome.result.ok
        /\ \A attempt \in {SingleValidate(document), MultiValidate(document)} :
              \A i \in 1..Len(attempt.error.errors) :
                  ErrorsAt(attempt.error.errors[i].loc) # {}

\* C16: when an environment lists a group that is not a key of groups,
\* TomlMultiEnvironment.model_validate fails, and its one error about
\* environments names every environment that has an undefined group, each with
\* all of its undefined groups, and no other environment.
C16_AllUndefinedReported ==
    (Returned("TomlMultiEnvironment.model_validate") /\ WithUndefined # {}) =>
        /\ ~outcome.result.ok
        /\ Cardinality(ErrorsAt("environments")) = 1
        /\ LET msg == outcome.result.error.errors[
                          CHOOSE i \in ErrorsAt("environments") : TRUE].msg
           IN  /\ {msg[i].env : i \in 1..Len(msg)} = WithUndefined
               /\ \A i \in 1..Len(msg) :
                     msg[i].missing = Range(document.environments[msg[i].env]) \ Defined

\* two environments with undefined groups beside a defined one, one of them
\* with two undefined groups
C16_Witness ==
    /\ Returned("TomlMultiEnvironment.model_validate")
    /\ Has(document, "about")
    /\ Defined = {"a"}
    /\ WithUndefined = {"default", "test"}
    /\ document.environments["default"] = <<"b", "c">>
    /\ ~outcome.result.ok
    /\ Len(outcome.result.error.errors) = 1

WithoutConfigExtra ==
    IF Has(document, "config")
    THEN [key \in DOMAIN document |->
            IF key = "config" THEN [channels |-> document.config.channels]
            ELSE document[key]]
    ELSE document

\* C19 as stated: validating a manifest rejects a document with an unknown
\* top-level key, and a key the config table has beyond the known ones
\* changes nothing.
C19_UnknownKeys ==
    /\ (vpc = "validated" /\ Has(document, "bogus")) => ~outcome.result.ok
    /\ Returned("TomlSingleEnvironment.model_validate") =>
            outcome.result = SingleValidate(WithoutConfigExtra)
    /\ Returned("CondaManifest.model_validate") =>
            outcome.result = ManifestValidate(WithoutConfigExtra)

\* C20 as stated: TomlSpec._load on a dict with a prefix key raises the
\* misrouted-input ValueError, whatever else the dict holds.
C20_PrefixMisrouted ==
    (Returned("TomlSpec._load") /\ Has(document, "prefix")) =>
        /\ ~outcome.result.ok
        /\ outcome.result.error.class = "ValueError"
        /\ "TomlSpec, but only serialized TomlSingleEnvironment "
              \in Range(outcome.result.error.message)

-----------------------------------------------------------------------------
(* TomlSpec(obj): _load on a path, a model, a dict or an Environment, and   *)
(* the two conversions between a model and an Environment (spec.py).  The   *)
(* file at a path is held as the tables loads() reads from its text.        *)

\* the variables table of a manifest, and of an Environment
SomeVariables == << <<"SOME", "VARIABLE">> >>

\* config tables: channels, variables, both
LoadConfigTables ==
    {[channels |-> <<"conda-forge">>],
     [variables |-> SomeVariables],
     [channels |-> <<>>, variables |-> SomeVariables]}

\* dependencies tables: one entry, two out of order, a value of no supported type
LoadDependencyTables ==
    {Dict(<< <<"python", Str("*")>> >>),
     Dict(<< <<"python", Str("*")>>, <<"flask", Str(">=3")>> >>),
     Dict(<< <<"python", PyInt("3")>> >>)}

\* pypi-dependencies tables: empty, two entries out of order, a version pip
\* has no form for
LoadPyPITables ==
    {Dict(<<>>),
     Dict(<< <<"pkg", Str(<<">", "2">>)>>, <<"numpy", Str(<<"*">>)>> >>),
     Dict(<< <<"numpy", Str(<<"~", "2">>)>> >>)}

\* the dicts TomlSpec is given; config is None in some, which no TOML text says
ManifestDicts ==
    {a @@ c @@ d @@ p @@ x :
        a \in OptionalKey("about", {AboutTable}),
        c \in OptionalKey("config", LoadConfigTables \cup {PyNone}),
        d \in OptionalKey("dependencies", LoadDependencyTables),
        p \in OptionalKey("pypi-dependencies", LoadPyPITables),
        x \in OptionalKey("prefix", {OtherPrefix})}

\* what loads() gives for the text of a file
TomlTables == {d \in ManifestDicts : ~(Has(d, "config") /\ d.config = PyNone)}

\* a path: its stem and its suffix
Path(stem, suffix) == [class |-> "str", stem |-> stem, suffix |-> suffix]

\* the models that validate
SingleModels == {SingleValidate(d).value : d \in {t \in ManifestDicts : SingleValidate(t).ok}}

\* the Environments of a prefix: named or not, with or without requested
\* packages, pip packages, variables and a config
LoadEnvironments ==
    [prefix : {OtherPrefix},
     platform : {ContextSubdir},
     name : {None, "", "demo"},
     requested_packages : {<<>>, <<MatchSpec(<<"python">>)>>},
     external_packages : OptionalKey("pip", {<< <<"numpy", "=", "=", "2">> >>}),
     variables : {<<>>, SomeVariables},
     config : {Absent, Some(from_context)}]

\* what TomlSpec can be constructed with
SpecObjects ==
    {[class |-> "dict", value |-> d] : d \in ManifestDicts}
    \cup {Path("conda", ".toml"), Path("environment", ".yml")}
    \cup SingleModels
    \cup {[class |-> "Environment", value |-> v] : v \in LoadEnvironments}
    \cup {[class |-> "int", value |-> "1"]}

\* the name given to the model: env.name if env.name else ""
BootstrapName(env) == IF env.name \in {None, ""} THEN "" ELSE env.name

\* external_packages.get("pip", []), line 324
PipPackages(env) ==
    IF "pip" \in DOMAIN env.external_packages THEN env.external_packages.pip ELSE <<>>

\* the dict of lines 308-325
BootstrapDict(env) ==
    [about |-> [name |-> BootstrapName(env), revision |-> "1", description |-> ""],
     config |-> [channels |-> env.config[1].channels[1],
                 platforms |-> Dict(<< <<env.platform, Dict(<<>>)>> >>),
                 variables |-> env.variables],
     platform |-> Str(env.platform),
     system_requirements |-> PyList(<<>>),
     version |-> PyInt("1"),
     dependencies |-> PyList(env.requested_packages),
     pypi_dependencies |->
        PyList([i \in 1..Len(PipPackages(env)) |-> Str(PipPackages(env)[i])])]

\* TomlSpec._environment_to_model(env), lines 292-326
environment_to_model(env) ==
    IF env.config = Absent THEN Raise(AttributeError("NoneType", "channels"))
    ELSE SingleValidate(BootstrapDict(env))

\* lines 203-204 on what model_validate gave for the file
LoadedIfValid(r) == IF r.ok THEN Loaded(r.value) ELSE r

\* lines 228-229 on what _environment_to_model gave
Bootstrapped(env, r) ==
    IF r.ok THEN Ok([model |-> r.value, environment |-> env]) ELSE r

\* TomlSpec(obj)._load(), lines 179-232, by the type of obj
TomlSpecLoad(obj, file) ==
    IF obj.class = "str"
    THEN IF file # NoFile /\ obj.suffix = ".toml"
         THEN LoadedIfValid(SingleValidate(file[1]))
         ELSE Raise([class |-> "ValueError",
                     message |-> <<"No file exists at ", obj.stem, obj.suffix>>])
    ELSE IF obj.class = "TomlSingleEnvironment" THEN Loaded(obj)
    ELSE IF obj.class = "dict" THEN LoadDict(obj.value)
    ELSE IF obj.class = "Environment"
    THEN Bootstrapped(obj.value, environment_to_model(obj.value))
    ELSE Raise([class |-> "ValueError",
                message |-> <<"Invalid parameter for TomlSpec: ", obj.value>>])

\* TomlSpec(spec_obj).model or .env: neither is set yet, so _load runs
LoadObj ==
    /\ lpc = "made"
    /\ spec_loaded' = TomlSpecLoad(spec_obj, spec_file)
    /\ lpc' = "loaded"
    /\ UNCHANGED <<spec_obj, spec_file, stateVars, depsVars, pypiVars, combineVars, docVars,
                   rootVars, applyVars, pluginVars, compareVars, editorVars>>

LoadInit ==
    /\ spec_obj \in SpecObjects
    /\ IF spec_obj.class = "str"
       THEN spec_file \in {NoFile} \cup {Some(d) : d \in TomlTables}
       ELSE spec_file = NoFile
    /\ spec_loaded = <<>>
    /\ lpc = "made"
    /\ StateIdle
    /\ DepsIdle
    /\ PyPIIdle
    /\ CombineIdle
    /\ DocIdle
    /\ RootIdle
    /\ ApplyIdle
    /\ PluginIdle
    /\ CompareIdle
    /\ EditorIdle

LoadNext == LoadObj

LoadSpec == LoadInit /\ [][LoadNext]_vars

-----------------------------------------------------------------------------
(* Claims about loading a TomlSpec *)

\* the Environment TomlSpec was constructed with
GivenEnvironment == spec_obj.value

\* C21 as stated: TomlSpec(E).model succeeds for every Environment E, and the
\* model has the name of E or "", revision "1", an empty description, the
\* channels of E's config, the requested packages of E as its dependencies
\* and the pip packages of E as its PyPI dependencies.
C21_Bootstrap ==
    (lpc = "loaded" /\ spec_obj.class = "Environment") =>
        /\ spec_loaded.ok
        /\ spec_loaded.value.model.about =
              [name |-> BootstrapName(GivenEnvironment), revision |-> "1",
               description |-> ""]
        /\ spec_loaded.value.model.config.channels =
              GivenEnvironment.config[1].channels[1]
        /\ spec_loaded.value.model.dependencies = GivenEnvironment.requested_packages
        /\ Len(spec_loaded.value.model.pypi_dependencies.root) =
              Len(PipPackages(GivenEnvironment))

\* the dict of the manifest TomlSpec was constructed with, when it has one
\* and the manifest is valid
GivenManifest ==
    IF spec_obj.class = "dict" /\ SingleValidate(spec_obj.value).ok
    THEN Some(SingleValidate(spec_obj.value).value)
    ELSE IF spec_obj.class = "str" /\ spec_obj.suffix = ".toml" /\ spec_file # NoFile
            /\ SingleValidate(spec_file[1]).ok
    THEN Some(SingleValidate(spec_file[1]).value)
    ELSE IF spec_obj.class = "TomlSingleEnvironment" THEN Some(spec_obj)
    ELSE Absent

\* C22 as stated: for every valid single-environment manifest, loaded from a
\* path, a dict or a model, TomlSpec builds an Environment with the prefix and
\* the platform of the context, the normalized dependencies as requested
\* packages, the variables and the name of the manifest, and the channels of
\* the manifest.
C22_ManifestToEnvironment ==
    (lpc = "loaded" /\ GivenManifest # Absent) =>
        /\ spec_loaded.ok
        /\ spec_loaded.value.environment.prefix = Prefix
        /\ spec_loaded.value.environment.platform = ContextSubdir
        /\ spec_loaded.value.environment.requested_packages = GivenManifest[1].dependencies
        /\ spec_loaded.value.environment.variables = GivenManifest[1].config.variables
        /\ spec_loaded.value.environment.name = GivenManifest[1].about.name
        /\ spec_loaded.value.environment.config.channels =
              Some(GivenManifest[1].config.channels)

-----------------------------------------------------------------------------
(* PyPIDependencies.model_validate on a list or a mapping (spec.py).  The   *)
(* elements of a list are PyPIDependency objects, (name, value) tuples,     *)
(* PrefixRecords, or values that are none of these.                         *)

\* longest list handed to the validator
MaxElements == 2

\* what a list can hold
PyPIElements ==
    UNION {{PyPIDependency(n, Some(<<"2">>), Absent, Absent),
            PyTuple(<<n, Str(<<">", "2">>)>>),
            PrefixRecord(n, <<"2">>)} : n \in Range(PyPINames)}
    \cup {PyTuple(<<"pkg", PyInt("2")>>), Str(<<"numpy", "=", "=", "2">>)}

\* the lists, and the mappings a manifest has under pypi-dependencies
PyPIValues ==
    {PyList(l) : l \in SeqsUpTo(PyPIElements, MaxElements)}
    \cup {Dict(<<>>),
          Dict(<< <<"pkg", Str(<<"2">>)>>, <<"numpy", Str(<<"*">>)>> >>),
          Dict(<< <<"pkg", Dict([path |-> ".", editable |-> TRUE])>> >>),
          Dict(<< <<"pkg", PyInt("2")>> >>)}

\* PyPIDependencies.model_validate(pypi_value)
ValidatePyPI ==
    /\ rpc = "given"
    /\ pypi_root' = PyPIDependenciesValidate(pypi_value)
    /\ rpc' = "validated"
    /\ UNCHANGED <<pypi_value, stateVars, depsVars, pypiVars, combineVars, docVars, loadVars, applyVars, pluginVars, compareVars, editorVars>>

RootInit ==
    /\ pypi_value \in PyPIValues
    /\ pypi_root = <<>>
    /\ rpc = "given"
    /\ StateIdle
    /\ DepsIdle
    /\ PyPIIdle
    /\ CombineIdle
    /\ DocIdle
    /\ LoadIdle
    /\ ApplyIdle
    /\ PluginIdle
    /\ CompareIdle
    /\ EditorIdle

RootNext == ValidatePyPI

RootSpec == RootInit /\ [][RootNext]_vars

-----------------------------------------------------------------------------
(* Claims about validating PyPI dependencies *)

\* the elements of the list that are not PyPIDependency objects all validate
ElementsValidate ==
    \A i \in 1..Len(pypi_value.items) :
        \/ pypi_value.items[i].class = "PyPIDependency"
        \/ PyPIDependencyValidate(pypi_value.items[i]).ok

\* each element as a PyPIDependency: itself, or what it validates into
AsDependencies ==
    [i \in 1..Len(pypi_value.items) |->
        IF pypi_value.items[i].class = "PyPIDependency" THEN pypi_value.items[i]
        ELSE PyPIDependencyValidate(pypi_value.items[i]).value]

\* C28 as stated: validating a list whose elements are PyPIDependency objects
\* or validate into them gives one PyPIDependency for each element, an object
\* kept as it is, in ascending order of name.
C28_ListPassedThrough ==
    (rpc = "validated" /\ pypi_value.class = "list" /\ ElementsValidate) =>
        /\ pypi_root.ok
        /\ pypi_root.value = SortedPyPI(AsDependencies)

-----------------------------------------------------------------------------
(* apply (apply.py): read the env file, solve, then stop, lock or link; and *)
(* execute_apply (cli.py), the action of the `conda apply` subcommand.  The *)
(* solver and PrefixGraph are conda's: what they give is any sequence of    *)
(* records, or an error.                                                    *)

\* longest traversal of the graph of solved records
MaxRecords == 3

\* PackageRecord: its name and its file name, as stem and extension
PackageRecord(name, extension) ==
    [class |-> "PackageRecord", name |-> name, fn |-> <<name, "-1.0-0", extension>>]

PackageRecords == {PackageRecord("python", ".conda"), PackageRecord("flask", ".tar.bz2")}

\* what iterating PrefixGraph(records).graph yields, or what the solver raises
Traversals ==
    {Ok(t) : t \in SeqsUpTo(PackageRecords, MaxRecords)}
    \cup {Raise([class |-> "UnsatisfiableError", message |-> <<"unsatisfiable">>])}

\* the env files apply is run on: none, or one with a package at most, with
\* or without a config table
ApplyFiles == {f \in EnvFiles : f = NoFile \/ Len(f[1].requested_packages) <= 1}

\* tuple(graph): every record of the traversal, repeats included
KeepAll(keys, out) == out \o keys

RECURSIVE FromKeys(_, _)
\* dict.fromkeys(keys), line 75: a key is inserted where it first occurs
FromKeys(keys, out) ==
    IF keys = <<>> THEN out
    ELSE FromKeys(Tail(keys),
                  IF Head(keys) \in Range(out) THEN out ELSE Append(out, Head(keys)))

\* solve(prefix, channels, subdirs, specs), lines 63-75: an error of the
\* solver is not caught
solve(graph) ==
    IF graph.ok THEN Ok(FromKeys(graph.value, <<>>)) ELSE graph

\* the name of the lock file of a record, lines 97-102: the file name without
\* its .tar.bz2, or without its last extension, and .json
LockName(record) == <<record.fn[1], record.fn[2], ".json">>

\* lock(prefix, records), lines 94-103: a new directory, one file for each record
lock(records) == [files |-> {LockName(records[i]) : i \in 1..Len(records)}]

DryRunExit == [class |-> "DryRunExit"]

LockOnlyExit == [class |-> "LockOnlyExit"]

\* how a call ends: what it returns or raises, the lock directory it wrote and
\* the records it linked, if any
Ended(result, lockdir, link) == [result |-> result, lockdir |-> lockdir, link |-> link]

\* lock_only looked at before dry_run
AfterSolveLockFirst(args, records) ==
    IF args.lock_only THEN Ended(Raise(LockOnlyExit), Some(lock(records)), Absent)
    ELSE IF args.dry_run THEN Ended(Raise(DryRunExit), Absent, Absent)
    ELSE Ended(Ok(None), Absent, Some(records))

\* apply, lines 191-198: dry_run, then lock_only, then link
AfterSolve(args, records) ==
    IF args.dry_run THEN Ended(Raise(DryRunExit), Absent, Absent)
    ELSE IF args.lock_only THEN Ended(Raise(LockOnlyExit), Some(lock(records)), Absent)
    ELSE Ended(Ok(None), Absent, Some(records))

\* execute_apply, lines 150-158: dry_run, then the lock, then lock_only, then
\* link(prefix=, records=), a call without the `args` that link requires
\* (apply.py, lines 106-108)
CliAfterSolve(args, records) ==
    IF args.dry_run THEN Ended(Raise(DryRunExit), Absent, Absent)
    ELSE IF args.lock_only THEN Ended(Raise(LockOnlyExit), Some(lock(records)), Absent)
    ELSE Ended(Raise([class |-> "TypeError",
                      message |-> <<"link() missing 1 required positional argument: 'args'">>]),
               Some(lock(records)), Absent)

\* the name read before anything was bound to it
UnboundLocalError(name) ==
    [class |-> "UnboundLocalError",
     message |-> <<"cannot access local variable '", name,
                   "' where it is not associated with a value">>]

\* apply, lines 171-179: the channels bound before the solve; nothing is bound
\* when the env file has no config table
BoundChannels(env) ==
    IF env = <<>> THEN Some(<<>>)
    ELSE IF env[1].config # <<>> THEN Some(env[1].config[1].channels)
    ELSE Absent

\* apply, lines 171-179: the specs bound before the solve
BoundSpecs(env) == IF env = <<>> THEN <<>> ELSE env[1].requested_packages

\* read_manifest(prefix), which cli.py imports from edit.py: the manifest of
\* the prefix as a dict, empty when there is no file
read_manifest(file) == IF file = NoFile THEN [k \in {} |-> <<>>] ELSE file[1]

\* manifest.get(key, [])
GetOr(table, key) == IF key \in DOMAIN table THEN table[key] ELSE <<>>

\* what a call that got as far as the solve leaves behind
Solved(call, channels, specs, after) ==
    /\ solve_call' = Some([channels |-> channels, specs |-> specs])
    /\ LET records == solve(traversal)
       IN  IF ~records.ok
           THEN /\ apply_result' = [call |-> call, result |-> records]
                /\ UNCHANGED <<solution, printed, lockdirs, linked>>
           ELSE /\ solution' = Some(records.value)
                /\ printed' = IF apply_args.quiet THEN <<>> ELSE records.value
                /\ lockdirs' = IF after.lockdir = Absent THEN lockdirs
                               ELSE Append(lockdirs, after.lockdir[1])
                /\ linked' = after.link
                /\ apply_result' = [call |-> call, result |-> after.result]

\* apply(prefix, quiet, dry_run, lock_only), lines 168-198
Apply ==
    /\ apc = "ready"
    /\ LET env == from_env_file(env_file)
       IN  IF BoundChannels(env) = Absent
           THEN /\ apply_result' = [call |-> "apply",
                                    result |-> Raise(UnboundLocalError("channels"))]
                /\ UNCHANGED <<solve_call, solution, printed, lockdirs, linked>>
           ELSE Solved("apply", BoundChannels(env)[1], BoundSpecs(env),
                       AfterSolve(apply_args,
                                  IF solve(traversal).ok THEN solve(traversal).value ELSE <<>>))
    /\ apc' = "done"
    /\ UNCHANGED <<env_file, apply_args, traversal, stateVars, depsVars, pypiVars,
                   combineVars, docVars, loadVars, rootVars, pluginVars, compareVars, editorVars>>

\* execute_apply(args), cli.py lines 137-158, with context.quiet and
\* context.dry_run as the call's quiet and dry_run
ExecuteApply ==
    /\ apc = "ready"
    /\ Solved("execute_apply",
              GetOr(read_manifest(env_file), "channels"),
              GetOr(read_manifest(env_file), "requirements"),
              CliAfterSolve(apply_args,
                            IF solve(traversal).ok THEN solve(traversal).value ELSE <<>>))
    /\ apc' = "done"
    /\ UNCHANGED <<env_file, apply_args, traversal, stateVars, depsVars, pypiVars,
                   combineVars, docVars, loadVars, rootVars, pluginVars, compareVars, editorVars>>

ApplyInit ==
    /\ env_file \in ApplyFiles
    /\ apply_args \in [quiet : BOOLEAN, dry_run : BOOLEAN, lock_only : BOOLEAN]
    /\ traversal \in Traversals
    /\ solve_call = Absent
    /\ solution = Absent
    /\ lockdirs = <<>>
    /\ linked = Absent
    /\ printed = <<>>
    /\ apply_result = <<>>
    /\ apc = "ready"
    /\ StateIdle
    /\ DepsIdle
    /\ PyPIIdle
    /\ CombineIdle
    /\ DocIdle
    /\ LoadIdle
    /\ RootIdle
    /\ PluginIdle
    /\ CompareIdle
    /\ EditorIdle

ApplyNext ==
    \/ Apply
    \/ ExecuteApply

ApplySpec == ApplyInit /\ [][ApplyNext]_vars

-----------------------------------------------------------------------------
(* Claims about apply *)

\* a record is at i in the traversal and nowhere before
FirstAt(record, i) ==
    /\ traversal.value[i] = record
    /\ \A j \in 1..(i - 1) : traversal.value[j] # record

\* C23: the tuple solve returns holds every record of the traversal once, and
\* no other, in the order in which the records first occur in the traversal.
C23_DuplicateFree ==
    (apc = "done" /\ solution # Absent) =>
        LET records == solution[1]
        IN  /\ \A i, j \in 1..Len(records) : i # j => records[i] # records[j]
            /\ Range(records) = Range(traversal.value)
            /\ \A i, j \in 1..Len(records) :
                  i < j => \E a, b \in 1..Len(traversal.value) :
                              /\ a < b
                              /\ FirstAt(records[i], a)
                              /\ FirstAt(records[j], b)

\* a traversal with a repeated record, past a record that comes later, was solved
C23_Witness ==
    /\ apc = "done"
    /\ solution # Absent
    /\ Len(traversal.value) = 3
    /\ traversal.value[1] = traversal.value[3]
    /\ traversal.value[1] # traversal.value[2]
    /\ Len(solution[1]) = 2

\* C24: once the solve has returned, a call with dry_run set raises DryRunExit
\* with no lock directory written and nothing linked, whatever lock_only is;
\* a call with lock_only set and dry_run unset writes a lock directory, raises
\* LockOnlyExit and links nothing; and no call links unless both are unset.
C24_ApplyOutcomes ==
    apc = "done" =>
        /\ (solution # Absent /\ apply_args.dry_run) =>
              /\ apply_result.result = Raise(DryRunExit)
              /\ lockdirs = <<>>
              /\ linked = Absent
        /\ (solution # Absent /\ apply_args.lock_only /\ ~apply_args.dry_run) =>
              /\ apply_result.result = Raise(LockOnlyExit)
              /\ Len(lockdirs) = 1
              /\ lockdirs[1] = lock(solution[1])
              /\ linked = Absent
        /\ linked # Absent => (~apply_args.dry_run /\ ~apply_args.lock_only)
        /\ solution = Absent => (lockdirs = <<>> /\ linked = Absent)

\* apply was called with both flags set, solved, and raised DryRunExit
C24_Witness ==
    /\ apc = "done"
    /\ apply_result.call = "apply"
    /\ solution # Absent
    /\ solution[1] # <<>>
    /\ apply_args.dry_run
    /\ apply_args.lock_only
    /\ apply_result.result = Raise(DryRunExit)

\* C29 as stated: apply gets to the solve whatever from_env_file returns: with
\* no env file it solves with no channels and no specs, with an env file that
\* has a config table with the channels of that table, and with an env file
\* without a config table it solves too.
C29_ReachesSolve ==
    (apc = "done" /\ apply_result.call = "apply") =>
        /\ solve_call # Absent
        /\ env_file = NoFile =>
              solve_call[1] = [channels |-> <<>>, specs |-> <<>>]
        /\ (env_file # NoFile /\ "config" \in DOMAIN env_file[1]) =>
              solve_call[1].channels = env_file[1].config.channels

-----------------------------------------------------------------------------
(* plugin.UpdateState: the post-transaction action.  execute keeps the text  *)
(* of the manifest and calls update_state; reverse puts the manifest back.   *)

\* The bytes of a file: its characters apart from line endings, and the line
\* ending every line carries.  The characters are the document they spell
\* and the way it is written down (as tomli_w dumps it, or as a person
\* wrote it, with comments and their own layout).
FileBytes(chars, eol) == [chars |-> chars, eol |-> eol]

LineEndings == {"\n", "\r\n"}

\* characters that from_env_file cannot load
NotAnEnvironment == [document |-> [invalid |-> TRUE], style |-> "written"]

\* the env dicts a manifest can spell here: at most one requested package
ManifestBodies == {f[1] : f \in {g \in EnvFiles \ {NoFile} : Len(g[1].requested_packages) <= 1}}

ManifestChars ==
    {[document |-> d, style |-> s] : d \in ManifestBodies, s \in {"dumped", "written"}}
        \cup {NotAnEnvironment}

\* the file at the manifest path before the action runs
ManifestFiles ==
    {NoFile} \cup {Some(FileBytes(c, e)) : c \in ManifestChars, e \in LineEndings}

\* open(path).read(): text mode, universal newlines: every line ending is
\* read as "\n", so the str holds the characters alone
ReadText(bytes) == bytes.chars

\* open(path, "w").write(text): text mode, "\n" is written as os.linesep
WriteText(text, sep) == FileBytes(text, sep)

\* tomli_w.dump(d, f) on a file opened "wb": "\n" line endings
dump(d) == FileBytes([document |-> d, style |-> "dumped"], "\n")

\* loads(f.read()) followed by dict_to_env can be done on these characters
Loads(chars) == chars.document # NotAnEnvironment.document

\* the files of the prefix: the one at get_env_path(prefix), which
\* update_state reads and writes
FileSystem == [env_path |-> prefix_file]

\* get_manifest_path(prefix): the manifest path for the target prefix, the
\* path update_state persists to
get_manifest_path(files) == files.env_path

\* Path.is_file()
is_file(file) == file # NoFile

\* update_state on the file system: the file it leaves, or the error of
\* from_env_file when the file is no environment
update_state(file, hist, remove, update) ==
    IF is_file(file) /\ ~Loads(ReadText(file[1]))
    THEN Raise([class |-> "TOMLDecodeError"])
    ELSE LET env_file_dict == IF is_file(file) THEN Some(ReadText(file[1]).document) ELSE NoFile
         IN  Ok(Some(dump(UpdatedFile(env_file_dict, hist, remove, update)[1])))

\* execute: self.original_env after the call
OriginalEnv(file, original) ==
    IF is_file(file) THEN Some(ReadText(file[1])) ELSE original

\* reverse that leaves the file alone when there was none
reverse_keep(original, file, sep) ==
    IF original = Absent THEN file ELSE Some(WriteText(original[1], sep))

\* reverse: the file it leaves
reverse(original, file, sep) ==
    IF original = Absent
    THEN NoFile
    ELSE Some(WriteText(original[1], sep))

\* the remove_specs and update_specs a transaction hands to the action
ActionSpecs ==
    {[remove_specs |-> r, update_specs |-> u] :
        r \in {<<>>, << <<"python">> >>},
        u \in {<<>>, << <<"flask">> >>, << <<"python", "=", "3.10">> >>,
               << <<"flask">>, <<"python">> >>}}

\* UpdateState.execute
Execute ==
    /\ upc = "made"
    /\ LET updated == update_state(prefix_file, prefix_history,
                                   Some(action_specs.remove_specs),
                                   Some(action_specs.update_specs))
       IN  /\ original_env' = OriginalEnv(get_manifest_path(FileSystem), original_env)
           /\ prefix_file' = IF updated.ok THEN updated.value ELSE prefix_file
           /\ action_result' = [method |-> "execute", returned |-> updated.ok]
    /\ upc' = "executed"
    /\ UNCHANGED <<prefix_history, action_specs, file_at_start, linesep>>
    /\ UNCHANGED <<stateVars, depsVars, pypiVars, combineVars, docVars,
                   loadVars, rootVars, applyVars, compareVars, editorVars>>

\* UpdateState.reverse, which the transaction calls when it rolls back
Reverse ==
    /\ upc = "executed"
    /\ prefix_file' = reverse(original_env, get_manifest_path(FileSystem), linesep)
    /\ action_result' = [method |-> "reverse", returned |-> TRUE]
    /\ upc' = "reversed"
    /\ UNCHANGED <<prefix_history, action_specs, original_env, file_at_start, linesep>>
    /\ UNCHANGED <<stateVars, depsVars, pypiVars, combineVars, docVars,
                   loadVars, rootVars, applyVars, compareVars, editorVars>>

\* UpdateState.__init__ has run: original_env is None
PluginInit ==
    /\ prefix_file \in ManifestFiles
    /\ prefix_history \in HistoriesBesideFile
    /\ action_specs \in ActionSpecs
    /\ original_env = Absent
    /\ file_at_start = prefix_file
    /\ linesep \in LineEndings
    /\ action_result = <<>>
    /\ upc = "made"
    /\ StateIdle
    /\ DepsIdle
    /\ PyPIIdle
    /\ CombineIdle
    /\ DocIdle
    /\ LoadIdle
    /\ RootIdle
    /\ ApplyIdle
    /\ CompareIdle
    /\ EditorIdle

PluginNext ==
    \/ Execute
    \/ Reverse

PluginSpec == PluginInit /\ [][PluginNext]_vars

-----------------------------------------------------------------------------
(* spec.EditablePackage under ==, >, < and sorted.  The class defines        *)
(* __gt__ and __eq__; functools.total_ordering derives the rest from them.   *)

\* the paths two editable packages of one name can differ in
EditablePaths == {"./a", "./b"}

EditablePackages ==
    {EditablePackage(n, [path |-> p, editable |-> b]) :
        n \in DepNameSet, p \in EditablePaths, b \in BOOLEAN}

\* what an EditablePackage is compared with: another one, or a str
Operands == EditablePackages \cup {Str(n) : n \in DepNameSet}

\* a > b on two strings
StrGt(a, b) == NameIndex(a) > NameIndex(b)

\* obj.name on a pydantic model: the field, or AttributeError for a name
\* that is no field of it
GetAttr(obj, name) ==
    IF name \in DOMAIN obj
    THEN Ok(obj[name])
    ELSE Raise(AttributeError(obj.class, name))

\* EditablePackage.__gt__(self, other)
gt(self, other) ==
    IF other.class = "EditablePackage"
    THEN LET root == GetAttr(self, "root")
         IN  IF root.ok THEN Ok(StrGt(root.value.name, other.name)) ELSE root
    ELSE Ok(StrGt(self.name, other.value))

\* EditablePackage.__eq__(self, other)
eq(self, other) ==
    IF other.class = "EditablePackage"
    THEN Ok(self.name = other.name)
    ELSE Ok(self.name = other.value)

\* functools._lt_from_gt: a < b is (not a > b) and a != b
lt_from_gt(self, other) ==
    LET op_result == gt(self, other)
    IN  IF op_result.ok
        THEN Ok(~op_result.value /\ ~eq(self, other).value)
        ELSE op_result

\* x < y as Python evaluates it: a str on the left returns NotImplemented
\* and the reflected y > x is taken
Less(x, y) ==
    IF x.class = "EditablePackage" THEN lt_from_gt(x, y) ELSE gt(y, x)

\* sorted([a, b]): one comparison, b < a
sorted_pair(a, b) ==
    LET swap == Less(b, a)
    IN  IF ~swap.ok THEN swap
        ELSE IF swap.value THEN Ok(<<b, a>>) ELSE Ok(<<a, b>>)

\* lhs == rhs, lhs > rhs, lhs < rhs and sorted([lhs, rhs]) are evaluated
Compare ==
    /\ qpc = "start"
    /\ comparisons' = [eq |-> eq(lhs, rhs), gt |-> gt(lhs, rhs),
                       lt |-> lt_from_gt(lhs, rhs), sorted |-> sorted_pair(lhs, rhs)]
    /\ qpc' = "compared"
    /\ UNCHANGED <<lhs, rhs>>
    /\ UNCHANGED <<stateVars, depsVars, pypiVars, combineVars, docVars,
                   loadVars, rootVars, applyVars, pluginVars, editorVars>>

CompareInit ==
    /\ lhs \in EditablePackages
    /\ rhs \in Operands
    /\ comparisons = <<>>
    /\ qpc = "start"
    /\ StateIdle
    /\ DepsIdle
    /\ PyPIIdle
    /\ CombineIdle
    /\ DocIdle
    /\ LoadIdle
    /\ RootIdle
    /\ ApplyIdle
    /\ PluginIdle
    /\ EditorIdle

CompareNext == Compare

CompareSpec == CompareInit /\ [][CompareNext]_vars

\* the two operands in ascending order of their names, the left one first
\* when the names are equal
ByName(a, b) == IF StrGt(a.name, b.name) THEN <<b, a>> ELSE <<a, b>>

\* C26 as stated: for two editable packages a and b, a == b exactly when
\* their names are equal whatever their paths, and a > b, a < b and
\* sorted([a, b]) are defined and agree with the string order of the names.
C26_OrderedByName ==
    (qpc = "compared" /\ rhs.class = "EditablePackage") =>
        /\ comparisons.eq = Ok(lhs.name = rhs.name)
        /\ comparisons.gt = Ok(StrGt(lhs.name, rhs.name))
        /\ comparisons.lt = Ok(StrGt(rhs.name, lhs.name))
        /\ comparisons.sorted = Ok(ByName(lhs, rhs))

-----------------------------------------------------------------------------
(* edit.EditApp: the text area, the workers that solve its text, and the     *)
(* table of the solution.  Handlers run one at a time on the event loop; a   *)
(* worker is a task on that loop and gives way only at its awaits: the       *)
(* debounce sleep and the thread that runs the solve.                        *)

\* TextArea.Changed events handled in one session
MaxChanges == 2

\* a text of the editor: whether TomlSpec(loads(text)).model can be made of
\* it, and the packages it requests
EditorText(toml, requested) == [toml |-> toml, requested |-> requested]

EditorTexts ==
    {EditorText(TRUE, <<"python">>), EditorText(TRUE, <<"flask">>),
     EditorText(TRUE, <<"numpy">>), EditorText(FALSE, <<>>)}

\* TomlSpec(loads(self.editor.text)).model, lines 458-460
ModelOf(source) ==
    IF source.toml
    THEN Ok([requested_packages |-> source.requested])
    ELSE Raise([class |-> "TOMLDecodeError", message |-> <<"invalid">>])

\* what the solver makes of the specs with the channels at hand: python and
\* flask, which needs python, are there; numpy is not
SolverGraph(specs) ==
    IF "numpy" \in Range(specs)
    THEN Raise([class |-> "PackagesNotFoundError", message |-> <<"numpy">>])
    ELSE Ok((IF specs # <<>> THEN <<PackageRecord("python", ".conda")>> ELSE <<>>)
            \o (IF "flask" \in Range(specs)
                THEN <<PackageRecord("flask", ".tar.bz2")>> ELSE <<>>))

\* the solution of a text, when it has one
SolutionOf(source) == solve(SolverGraph(source.requested))

\* a worker as run_worker makes it: a task that has not run yet
Worker(kind, debounce, born) ==
    [kind |-> kind, debounce |-> debounce, state |-> "waiting", thread |-> "none",
     read |-> Absent, born |-> born]

\* run_worker without exclusive: the workers of the group go on
KeepGroup(group) == group

\* run_worker(..., exclusive=True): every worker of the group is cancelled;
\* its task gets CancelledError at the await it is in, also when what it
\* awaits is done already
CancelGroup(group) == [i \in DOMAIN group |-> [group[i] EXCEPT !.state = "cancelled"]]

\* the workers that go on
Live(group) == SelectSeq(group, LAMBDA w : w.state # "cancelled")

\* what the threads of the cancelled workers go on with: a thread cannot be
\* cancelled
Orphaned(group) ==
    {w.read : w \in {x \in Range(group) : x.state = "cancelled" /\ x.thread = "running"}}

\* the texts whose solve was over when its worker was cancelled
Discarded(group) ==
    {w.read[1] : w \in {x \in Range(group) : /\ x.state = "cancelled"
                                              /\ x.thread = "returned"
                                              /\ x.kind = "update_table"}}

\* a worker that ran to its end leaves the group
Finished(group, i) == SelectSeq([group EXCEPT ![i].state = "finished"],
                                LAMBDA w : w.state # "finished")

\* run_worker(work, exclusive=True): the group, the threads left behind and
\* the results dropped
run_worker(group, kind, debounce, born) ==
    LET cancelled == CancelGroup(group)
    IN  [workers |-> Append(Live(cancelled), Worker(kind, debounce, born)),
         orphans |-> Orphaned(cancelled),
         dropped |-> Discarded(cancelled)]

\* to_table_row, with the status column set
Row(mark, record) == <<mark, record.name>>

\* format_table_data(records, requested_specs), lines 544-572: the rows, and
\* self.initial_solution after the call
format_table_data(records, requested_specs, initial) ==
    IF initial = Absent
    THEN [rows |-> [i \in 1..Len(records) |-> Row("", records[i])],
          initial_solution |-> Some(records)]
    ELSE LET marked == [i \in 1..Len(records) |->
                          IF records[i].name \in Range(requested_specs)
                          THEN Row("++>", records[i])
                          ELSE IF records[i] \in Range(initial[1])
                               THEN Row("", records[i])
                               ELSE Row("+  ", records[i])]
             gone == SelectSeq(initial[1], LAMBDA r : r \notin Range(records))
         IN  [rows |-> marked \o [i \in 1..Len(gone) |-> Row("-  ", gone[i])],
              initial_solution |-> initial]

\* render_table(rows), lines 647-651: the rows sorted by the name column
render_table(rows) ==
    LET named(n) == SelectSeq(rows, LAMBDA r : r[2] = n)
    IN  named(DepNames[1]) \o named(DepNames[2]) \o named(DepNames[3])

\* the label handle_editor_changed and on_mount set
Label(source, initial) ==
    IF source = initial THEN "Editing" ELSE "Editing (Modified)"

editorRest == <<initial_text, file_text>>

otherVars == <<stateVars, depsVars, pypiVars, combineVars, docVars,
               loadVars, rootVars, applyVars, pluginVars, compareVars>>

\* on_mount: the first solve, without debounce
OnMount ==
    /\ epc = "constructed"
    /\ editor_label' = "Editing"
    /\ workers' = run_worker(workers, "update_table", 0, changes).workers
    /\ epc' = "mounted"
    /\ UNCHANGED <<orphans, dropped, editor_text, status, notified, initial_solution, current_solution,
                   table_rows, changes, last_write, editorRest, otherVars>>

\* handle_editor_changed: the user changed the text
HandleEditorChanged(source) ==
    /\ epc = "mounted"
    /\ changes < MaxChanges
    /\ source # editor_text
    /\ editor_text' = source
    /\ editor_label' = Label(source, initial_text)
    /\ changes' = changes + 1
    /\ LET started == run_worker(workers, "update_table", 1, changes + 1)
       IN  /\ workers' = started.workers
           /\ orphans' = orphans \cup started.orphans
           /\ dropped' = dropped \cup started.dropped
    /\ UNCHANGED <<status, notified, initial_solution, current_solution,
                   table_rows, last_write, epc, editorRest, otherVars>>

\* a worker's task runs up to its await of the thread: update_table after
\* its debounce sleep reads the text and starts the solve, or returns when
\* no model can be made of the text; run_apply starts apply
Wake(i) ==
    /\ workers[i].state = "waiting"
    /\ IF workers[i].kind = "update_table" /\ ~ModelOf(editor_text).ok
       THEN /\ notified' = "The current file is invalid TOML"
            /\ status' = "done"
            /\ workers' = Finished(workers, i)
       ELSE /\ notified' = notified
            /\ status' = IF workers[i].kind = "update_table" THEN "solving" ELSE status
            /\ workers' = [workers EXCEPT ![i].state = "solving",
                                          ![i].thread = "running",
                                          ![i].read =
                                              IF workers[i].kind = "update_table"
                                              THEN Some(editor_text) ELSE Absent]
    /\ UNCHANGED <<orphans, dropped, editor_text, editor_label, initial_solution, current_solution,
                   table_rows, changes, last_write, epc, editorRest, otherVars>>

\* the thread of a worker comes to its end
ThreadReturns(i) ==
    /\ workers[i].thread = "running"
    /\ workers' = [workers EXCEPT ![i].thread = "returned"]
    /\ UNCHANGED <<orphans, dropped, editor_text, editor_label, status, notified, initial_solution,
                   current_solution, table_rows, changes, last_write, epc,
                   editorRest, otherVars>>

\* the thread of a cancelled worker comes to its end: nothing awaits it, and
\* what it returns is dropped
OrphanReturns(work) ==
    /\ work \in orphans
    /\ orphans' = orphans \ {work}
    /\ dropped' = IF work = Absent THEN dropped ELSE dropped \cup {work[1]}
    /\ UNCHANGED <<workers, editor_text, editor_label, status, notified,
                   initial_solution, current_solution, table_rows, changes,
                   last_write, epc, editorRest, otherVars>>

\* update_table goes on after the solve, lines 476-497
ResumeUpdate(i) ==
    /\ workers[i].kind = "update_table"
    /\ workers[i].state = "solving"
    /\ workers[i].thread = "returned"
    /\ LET records == SolutionOf(workers[i].read[1])
           formatted == format_table_data(records.value,
                                          workers[i].read[1].requested,
                                          initial_solution)
       IN  IF records.ok
           THEN /\ current_solution' = Some(records.value)
                /\ initial_solution' = formatted.initial_solution
                /\ table_rows' = render_table(formatted.rows)
                /\ last_write' = Some([born |-> workers[i].born, changes |-> changes,
                                        read |-> workers[i].read[1]])
                /\ notified' = notified
           ELSE /\ notified' = "No valid solution for the given requirements"
                /\ UNCHANGED <<current_solution, initial_solution, table_rows, last_write>>
    /\ status' = "done"
    /\ workers' = Finished(workers, i)
    /\ UNCHANGED <<orphans, dropped, editor_text, editor_label, changes, epc,
                   editorRest, otherVars>>

\* run_apply goes on after apply, lines 669-691
ResumeApply(i, raised) ==
    /\ workers[i].kind = "run_apply"
    /\ workers[i].state = "solving"
    /\ workers[i].thread = "returned"
    /\ notified' = IF raised THEN "Exception while applying the environment" ELSE notified
    /\ status' = "done"
    /\ workers' = Finished(workers, i)
    /\ UNCHANGED <<orphans, dropped, editor_text, editor_label, initial_solution, current_solution,
                   table_rows, changes, last_write, epc, editorRest, otherVars>>

\* action_save
ActionSave ==
    /\ epc = "mounted"
    /\ file_text' = editor_text
    /\ notified' = "Saved"
    /\ UNCHANGED <<editor_text, initial_text, editor_label, status, workers,
                   orphans, dropped, initial_solution, current_solution, table_rows, changes,
                   last_write, epc, otherVars>>

\* action_apply: save, then run_apply in an exclusive worker
ActionApply ==
    /\ epc = "mounted"
    /\ Len(workers) < MaxChanges + 2
    /\ file_text' = editor_text
    /\ notified' = "Saved"
    /\ LET started == run_worker(workers, "run_apply", 0, changes)
       IN  /\ workers' = started.workers
           /\ orphans' = orphans \cup started.orphans
           /\ dropped' = dropped \cup started.dropped
    /\ UNCHANGED <<editor_text, initial_text, editor_label, status,
                   initial_solution, current_solution, table_rows, changes,
                   last_write, epc, otherVars>>

\* EditApp.__init__ has run on a file that is there
EditorInit ==
    /\ initial_text \in EditorTexts
    /\ editor_text = initial_text
    /\ file_text = initial_text
    /\ editor_label = ""
    /\ status = "done"
    /\ notified = ""
    /\ workers = <<>>
    /\ orphans = {}
    /\ dropped = {}
    /\ initial_solution = Absent
    /\ current_solution = Absent
    /\ table_rows = <<>>
    /\ changes = 0
    /\ last_write = Absent
    /\ epc = "constructed"
    /\ StateIdle
    /\ DepsIdle
    /\ PyPIIdle
    /\ CombineIdle
    /\ DocIdle
    /\ LoadIdle
    /\ RootIdle
    /\ ApplyIdle
    /\ PluginIdle
    /\ CompareIdle

EditorNext ==
    \/ OnMount
    \/ \E source \in EditorTexts : HandleEditorChanged(source)
    \/ \E i \in DOMAIN workers : Wake(i)
    \/ \E i \in DOMAIN workers : ThreadReturns(i)
    \/ \E work \in orphans : OrphanReturns(work)
    \/ \E i \in DOMAIN workers : ResumeUpdate(i)
    \/ \E i \in DOMAIN workers, raised \in BOOLEAN : ResumeApply(i, raised)
    \/ ActionSave
    \/ ActionApply

EditorSpec == EditorInit /\ [][EditorNext]_vars

\* C25: whenever a solve's result is written to current_solution and
\* rendered, it is the result of the solve started for the most recent
\* text change: no change was handled between the start of the worker that
\* wrote and its write, the worker of an earlier change is no longer under
\* way once a later change was handled, and what is in current_solution is
\* the solution of the text that worker read.
C25_OnlyLatestApplied ==
    /\ last_write # Absent =>
          /\ last_write[1].born = last_write[1].changes
          /\ current_solution = Some(SolutionOf(last_write[1].read).value)
    /\ \A i \in DOMAIN workers :
          workers[i].kind = "update_table" => workers[i].born = changes

\* a solve that was superseded came to its end and its result was dropped:
\* the newer solve's result is the one in current_solution
C25_Witness ==
    /\ last_write # Absent
    /\ last_write[1].born = MaxChanges
    /\ current_solution = Some(SolutionOf(editor_text).value)
    /\ \E source \in dropped :
          /\ SolutionOf(source).ok
          /\ SolutionOf(source) # SolutionOf(editor_text)

\* C30 as stated: initial_solution, once set, is the solution of the text
\* that was on disk when the editor started, whatever the interleaving of
\* the first solve with text changes.
C30_BaselineOfInitialText ==
    initial_solution # Absent =>
        /\ SolutionOf(initial_text).ok
        /\ initial_solution = Some(SolutionOf(initial_text).value)

====
